---- MODULE Spec2Model ----
(***************************************************************************)
(* Model of the multi-region disaster-recovery Lambdas:                    *)
(*   lambda/failover-orchestrator/index.py   (Spec, SpecDispatch)          *)
(*   lambda/health-checker/index.py          (SpecHealth)                  *)
(*   lambda/data-consistency-validator/index.py                            *)
(*                           (SpecProbe, SpecOverlap, SpecValidator)       *)
(*   testing/data-integrity-tests.py         (SpecConflict)                *)
(***************************************************************************)
EXTENDS Integers, Sequences, FiniteSets, TLC

(* ---------------------------- bounds ----------------------------------- *)
MaxSamples == 5         \* runs of the health-checker handler
MaxProbeClock == 22     \* wall clock range of the replication-lag probes
MaxTime == 2            \* wall clock range 0..MaxTime of the orchestrator runs

(* ------------------------ program constants ---------------------------- *)
PRIMARY_REGION == "ap-south-1"
SECONDARY_REGION == "ap-southeast-1"
Regions == {PRIMARY_REGION, SECONDARY_REGION}

\* Two invocations of the orchestrator Lambda, which the runtime may run at
\* the same time (two alarms, or one alarm delivered twice).
Invocations == {"inv1", "inv2"}

VARIABLES
  now,            \* time.time(), a wall clock that does not step backwards
  SNS_TOPIC,      \* TRUE iff the SNS_TOPIC environment variable is set
  pc,             \* position of each orchestrator invocation
  failed_region,  \* argument of initiate_failover ("none" outside of it)
  target_region,  \* argument of initiate_failover ("none" outside of it)
  start_time,     \* local start_time of initiate_failover (-1 = unset)
  rto,            \* local rto of initiate_failover (-1 = unset)
  completed_at,   \* clock value at which rto was computed (-1 = unset)
  outcome,        \* outcome of the failover this invocation executes
  calls,          \* the external calls the invocation made, in order
  error,          \* the exception the invocation is handling ("none")
  response        \* what the invocation gave back to the Lambda runtime

orchVars == <<now, SNS_TOPIC, pc, failed_region, target_region, start_time,
              rto, completed_at, outcome, calls, error, response>>

\* health-checker Lambda
VARIABLES
  hc_pc,            \* position of the health-checker handler
  dynamodb_health,  \* the dictionary check_dynamodb returned
  overall_status,   \* health_status['overall_status'] of the latest run
  hc_published,     \* what publish_metrics did in the current run
  hc_alert,         \* what send_alert did in the current run
  samples,          \* number of completed runs (one health sample each)
  consecutive_failure_count,  \* unsuccessful samples since the last success
  consecutive_success_count   \* successful samples since the last failure

healthVars == <<hc_pc, dynamodb_health, overall_status, hc_published,
                hc_alert, samples, consecutive_failure_count,
                consecutive_success_count>>

\* data-consistency-validator Lambda, check_replication_lag
VARIABLES
  probe_pc,         \* position of each replication-lag probe
  test_id,          \* the marker key of the probe (-1 = unset)
  write_time,       \* local write_time (-1 = unset)
  attempt,          \* loop variable of the poll loop
  observed_ts,      \* clock value at which get_item returned the marker
  lag,              \* local lag, in ms (-1 = unset)
  result,           \* the dictionary check_replication_lag returned
  deletes_issued,   \* the tables the probe has called delete_item on
  visible_ts,       \* clock value at which the marker reached the secondary
  table_primary,    \* keys present in the table of the primary region
  table_secondary   \* keys present in the table of the secondary region

probeVars == <<probe_pc, test_id, write_time, attempt, observed_ts, lag, result,
               deletes_issued, visible_ts, table_primary, table_secondary>>

\* the event each orchestrator invocation was given, kept by handler_traced
VARIABLES event

\* data-consistency-validator Lambda, handler
VARIABLES
  v_pc,             \* position of the validator handler
  replication_lag,  \* validation_results['checks']['replication_lag']
  conflicts,        \* validation_results['checks']['conflicts']
  status,           \* validation_results['status']
  v_alert,          \* what send_alert did in the current run
  v_response        \* what the handler gave back to the Lambda runtime

validatorVars == <<v_pc, replication_lag, conflicts, status, v_alert,
                   v_response>>

\* testing/data-integrity-tests.py, test_concurrent_writes
VARIABLES
  cw_pc,            \* position of the test
  item_primary,     \* the item stored under base_id in the primary region
  item_secondary,   \* the item stored under base_id in the secondary region
  primary_result,   \* what get_item on the primary table returned
  secondary_result, \* what get_item on the secondary table returned
  converged,        \* local converged of the test
  cw_status         \* the 'status' of the dictionary the test returned

testVars == <<cw_pc, item_primary, item_secondary, primary_result,
              secondary_result, converged, cw_status>>

\* traffic-router Lambda, handler, and the /health probe of
\* testing/rto-calculator.py, measure_endpoint_response_time
VARIABLES
  r_pc,             \* position of the router handler
  r_request,        \* the event the router handler was given
  r_status,         \* 'statusCode' of the response (0 = unset)
  r_body,           \* the keys of the response body
  r_store_ops,      \* the DynamoDB calls made for the request
  m_pc,             \* position of measure_endpoint_response_time
  m_result          \* the dictionary it returned

endpointVars == <<r_pc, r_request, r_status, r_body, r_store_ops, m_pc,
                  m_result>>

\* testing/chaos-engineering.py, measure_failover_time, and
\* testing/rto-calculator.py, the monitoring loop of
\* simulate_failure_and_measure_rto
VARIABLES
  ft_pc,            \* position of measure_failover_time
  ft_max_wait,      \* its parameter max_wait, in seconds (-1 = not called)
  ft_elapsed,       \* time.time() - start_time, in seconds
  ft_successes,     \* its local consecutive_successes
  ft_result,        \* what it returned (-1 = None, -2 = nothing yet)
  rm_pc,            \* position of the monitoring loop
  rm_elapsed,       \* time.time() - failure_start_time, in seconds
  failover_detected, \* local failover_detected
  rm_successes,     \* local consecutive_successes
  rm_result,        \* the rto measured (-1 = None, -2 = nothing yet)
  ft_history        \* the responses measure_failover_time has seen

monitorVars == <<ft_pc, ft_max_wait, ft_elapsed, ft_successes, ft_result,
                 ft_history,
                 rm_pc, rm_elapsed, failover_detected, rm_successes,
                 rm_result>>

\* failover orchestrator, verify_region_health as a function of what Route 53
\* answers
VARIABLES
  vr_pc,            \* position of the call
  vr_region,        \* its argument region
  vr_response,      \* what Route 53 answers to its queries
  vr_result         \* what it returned

verifyVars == <<vr_pc, vr_region, vr_response, vr_result>>

\* testing/chaos-engineering.py, simulate_alb_failure and restore_alb
VARIABLES
  alb_pc,           \* position of the chaos run
  alb_before,       \* the targets registered before the simulation
  alb_registered,   \* the targets registered now
  alb_k,            \* position of the loops over the targets
  deregistered_targets, \* local deregistered_targets of simulate_alb_failure
  deregistered      \* what simulate_alb_failure returned, given to restore_alb

albVars == <<alb_pc, alb_before, alb_registered, alb_k, deregistered_targets,
             deregistered>>

otherVars == <<endpointVars, monitorVars, verifyVars, albVars>>

vars == <<orchVars, event, healthVars, probeVars, validatorVars, testVars,
          otherVars>>

(* ------------------------------ events --------------------------------- *)
AlarmNames == {"mumbai-region-failure", "singapore-region-failure", "dr-alarm"}
AlarmStates == {"ALARM", "OK", "INSUFFICIENT_DATA"}
AlarmRegions == {PRIMARY_REGION, SECONDARY_REGION, ""}

\* The events the Lambda runtime can deliver: a message delivered directly or
\* wrapped in an SNS record (form), being an alarm, a Route 53 health-check
\* state change, an unrelated message or a record that is not valid JSON.
AlarmEvents ==
  [form : {"direct", "sns"}, kind : {"alarm"}, AlarmName : AlarmNames,
   NewStateValue : AlarmStates, Region : AlarmRegions, status : {"n/a"}]
HealthCheckEvents ==
  [form : {"direct", "sns"}, kind : {"health-check"}, AlarmName : {"n/a"},
   NewStateValue : {"n/a"}, Region : {"n/a"}, status : {"unhealthy", "healthy"}]
OtherEvents ==
  [form : {"direct", "sns"}, kind : {"other"}, AlarmName : {"n/a"},
   NewStateValue : {"n/a"}, Region : {"n/a"}, status : {"n/a"}]
MalformedEvents ==
  [form : {"sns"}, kind : {"malformed"}, AlarmName : {"n/a"},
   NewStateValue : {"n/a"}, Region : {"n/a"}, status : {"n/a"}]
Events == AlarmEvents \cup HealthCheckEvents \cup OtherEvents \cup MalformedEvents

\* 'mumbai' in alarm_name.lower(), 'singapore' in alarm_name.lower()
NameHasMumbai(name) == name = "mumbai-region-failure"
NameHasSingapore(name) == name = "singapore-region-failure"

\* a handle_alarm that starts a failover on every state but OK
handle_alarm_any_state(m) ==
  IF m.NewStateValue # "OK"
  THEN IF NameHasMumbai(m.AlarmName) \/ m.Region = PRIMARY_REGION
       THEN <<"failover", PRIMARY_REGION, SECONDARY_REGION>>
       ELSE IF NameHasSingapore(m.AlarmName) \/ m.Region = SECONDARY_REGION
            THEN <<"failover", SECONDARY_REGION, PRIMARY_REGION>>
            ELSE <<"nothing">>
  ELSE <<"recovery">>

\* a handle_alarm that fails back to the region an OK alarm names
handle_alarm_failback(m) ==
  IF m.NewStateValue = "ALARM"
  THEN IF NameHasMumbai(m.AlarmName) \/ m.Region = PRIMARY_REGION
       THEN <<"failover", PRIMARY_REGION, SECONDARY_REGION>>
       ELSE IF NameHasSingapore(m.AlarmName) \/ m.Region = SECONDARY_REGION
            THEN <<"failover", SECONDARY_REGION, PRIMARY_REGION>>
            ELSE <<"nothing">>
  ELSE IF m.NewStateValue = "OK"
       THEN IF NameHasMumbai(m.AlarmName) \/ m.Region = PRIMARY_REGION
            THEN <<"failover", SECONDARY_REGION, PRIMARY_REGION>>
            ELSE <<"recovery">>
       ELSE <<"nothing">>

\* handle_alarm: the call it makes for an alarm message
\* <<"failover", failed, target>>, <<"recovery">> or <<"nothing">>.
handle_alarm(m) ==
  IF m.NewStateValue = "ALARM"
  THEN IF NameHasMumbai(m.AlarmName) \/ m.Region = PRIMARY_REGION
       THEN <<"failover", PRIMARY_REGION, SECONDARY_REGION>>
       ELSE IF NameHasSingapore(m.AlarmName) \/ m.Region = SECONDARY_REGION
            THEN <<"failover", SECONDARY_REGION, PRIMARY_REGION>>
            ELSE <<"nothing">>
  ELSE IF m.NewStateValue = "OK"
       THEN <<"recovery">>
       ELSE <<"nothing">>

\* handler, lines 22-33: what the event is dispatched to.
\* json.loads raises on a malformed SNS record; 'AlarmName' is looked up in
\* the parsed message, 'health-check' in the event itself.
Dispatch(e) ==
  IF e.kind = "malformed" THEN <<"raise">>
  ELSE IF e.kind = "alarm" THEN handle_alarm(e)
  ELSE IF e.kind = "health-check" /\ e.form = "direct"
       THEN IF e.status = "unhealthy" THEN <<"hc_unhealthy">> ELSE <<"nothing">>
       ELSE <<"nothing">>

(* --------------------------- helpers ----------------------------------- *)
\* the positions in the call history of invocation i of the calls of op
\* (with result res, about arg)
CallsOf(i, op) == {k \in 1..Len(calls[i]) : calls[i][k].op = op}
CallsWith(i, op, res) ==
  {k \in 1..Len(calls[i]) : calls[i][k].op = op /\ calls[i][k].res = res}
Notifications(i, subject) ==
  {k \in 1..Len(calls[i]) : calls[i][k].op = "notify" /\ calls[i][k].arg = subject}
NotificationsSent(i, subject) ==
  {k \in Notifications(i, subject) : calls[i][k].res = "sent"}
\* the invocation has returned to the Lambda runtime (not ended by it)
Returned(i) == pc[i] = "done" /\ response[i] \in {"200", "500"}

TypeOK ==
  /\ now \in 0..MaxTime
  /\ SNS_TOPIC \in BOOLEAN
  /\ pc \in [Invocations -> STRING]
  /\ outcome \in [Invocations -> {"NONE", "PENDING", "SUCCEEDED", "FAILED"}]
  /\ response \in [Invocations -> {"none", "200", "500", "timed_out"}]

\* The probes of two validator invocations, which may overlap; SpecProbe
\* runs the first one alone, SpecOverlap runs both.
Probes == {"probe1", "probe2"}
FirstProbe == {"probe1"}

NoResult == [status |-> "none", lag_ms |-> -1]

HealthInit ==
  /\ hc_pc = "idle"
  /\ dynamodb_health = [status |-> "none", latency_ms |-> -1, error |-> "none"]
  /\ overall_status = "none"
  /\ hc_published = "none"
  /\ hc_alert = "none"
  /\ samples = 0
  /\ consecutive_failure_count = 0
  /\ consecutive_success_count = 0

ProbeInit ==
  /\ probe_pc = [p \in Probes |-> "idle"]
  /\ test_id = [p \in Probes |-> -1]
  /\ write_time = [p \in Probes |-> -1]
  /\ attempt = [p \in Probes |-> 0]
  /\ observed_ts = [p \in Probes |-> -1]
  /\ lag = [p \in Probes |-> -1]
  /\ result = [p \in Probes |-> NoResult]
  /\ deletes_issued = [p \in Probes |-> {}]
  /\ visible_ts = [p \in Probes |-> -1]
  /\ table_primary = {}
  /\ table_secondary = {}

OrchInit ==
  /\ now = 0
  /\ SNS_TOPIC \in BOOLEAN
  /\ pc = [i \in Invocations |-> "idle"]
  /\ failed_region = [i \in Invocations |-> "none"]
  /\ target_region = [i \in Invocations |-> "none"]
  /\ start_time = [i \in Invocations |-> -1]
  /\ rto = [i \in Invocations |-> -1]
  /\ completed_at = [i \in Invocations |-> -1]
  /\ outcome = [i \in Invocations |-> "NONE"]
  /\ calls = [i \in Invocations |-> <<>>]
  /\ error = [i \in Invocations |-> "none"]
  /\ response = [i \in Invocations |-> "none"]

\* no event kept
NoEvent ==
  [form |-> "none", kind |-> "none", AlarmName |-> "n/a",
   NewStateValue |-> "n/a", Region |-> "n/a", status |-> "n/a"]

\* the candidate keys of a conflict scan
ConflictKeys == {"k1", "k2"}

ValidatorInit ==
  /\ v_pc = "idle"
  /\ replication_lag = NoResult
  /\ conflicts = [k \in ConflictKeys |-> "none"]
  /\ status = "none"
  /\ v_alert = "none"
  /\ v_response = "none"

\* response.get('Item') of a get_item that found nothing: None
NoItem == [source |-> "None", value |-> 0]

TestInit ==
  /\ cw_pc = "idle"
  /\ item_primary = NoItem
  /\ item_secondary = NoItem
  /\ primary_result = NoItem
  /\ secondary_result = NoItem
  /\ converged = FALSE
  /\ cw_status = "none"

\* no request
NoRequest ==
  [path |-> "none", httpMethod |-> "none", body |-> "none", id |-> FALSE]

\* no result of measure_endpoint_response_time
NoMeasurement ==
  [success |-> FALSE, response_time |-> -1, status_code |-> 0,
   error |-> "none"]

EndpointInit ==
  /\ r_pc = "idle"
  /\ r_request = NoRequest
  /\ r_status = 0
  /\ r_body = {}
  /\ r_store_ops = {}
  /\ m_pc = "idle"
  /\ m_result = NoMeasurement

\* max_wait as the callers of measure_failover_time may give it, in seconds
MaxWaits == {0, 12, 30}

MonitorInit ==
  /\ ft_pc = "idle"
  /\ ft_max_wait = -1
  /\ ft_elapsed = 0
  /\ ft_successes = 0
  /\ ft_result = -2
  /\ ft_history = <<>>
  /\ rm_pc = "idle"
  /\ rm_elapsed = 0
  /\ failover_detected = FALSE
  /\ rm_successes = 0
  /\ rm_result = -2

VerifyInit ==
  /\ vr_pc = "idle"
  /\ vr_region = "none"
  /\ vr_response = [raises |-> FALSE, HealthChecks |-> <<>>]
  /\ vr_result = FALSE

AlbInit ==
  /\ alb_pc = "idle"
  /\ alb_before = {}
  /\ alb_registered = {}
  /\ alb_k = 0
  /\ deregistered_targets = <<>>
  /\ deregistered = <<>>

Init ==
  /\ OrchInit /\ event = [i \in Invocations |-> NoEvent]
  /\ HealthInit /\ ProbeInit /\ ValidatorInit /\ TestInit
  /\ EndpointInit /\ MonitorInit /\ VerifyInit /\ AlbInit

\* time passes.  The clock is read at lines 75 and 86 only, so it is advanced
\* while some invocation is between the two reads.
Tick ==
  /\ now < MaxTime
  /\ \E i \in Invocations : pc[i] \in {"verify", "redirect", "rto"}
  /\ now' = now + 1
  /\ UNCHANGED <<SNS_TOPIC, pc, failed_region, target_region, start_time, rto,
                 completed_at, outcome, calls, error, response>>
  /\ UNCHANGED <<event, healthVars, probeVars, validatorVars, testVars, otherVars>>

\* handler, lines 22-33, given the event e: parse it and dispatch it.
handler_dispatch(i, e) ==
  LET d == Dispatch(e) IN
  /\ pc[i] = "idle"
  /\ pc' = [pc EXCEPT ![i] =
              CASE d[1] = "raise" -> "handler_except"
                [] d[1] = "failover" -> "initiate_failover"
                [] d[1] = "recovery" -> "recovery_notify"
                [] d[1] = "hc_unhealthy" -> "hc_notify"
                [] OTHER -> "handler_return"]
  /\ failed_region' = [failed_region EXCEPT ![i] =
              IF d[1] = "failover" THEN d[2] ELSE "none"]
  /\ target_region' = [target_region EXCEPT ![i] =
              IF d[1] = "failover" THEN d[3] ELSE "none"]
  /\ error' = [error EXCEPT ![i] =
              IF d[1] = "raise" THEN "JSONDecodeError" ELSE "none"]
  /\ UNCHANGED <<now, SNS_TOPIC, start_time, rto, completed_at, outcome,
                 calls, response>>
  /\ UNCHANGED <<healthVars, probeVars, validatorVars, testVars, otherVars>>

\* handler_dispatch reads its event through Dispatch only, so one event of
\* each way of dispatching stands for all the events dispatched that way.
EventDispatchedAs(d) == CHOOSE e \in Events : Dispatch(e) = d
DispatchedEvents == {EventDispatchedAs(Dispatch(e)) : e \in Events}

\* handler, lines 22-33, on any event.
handler(i) ==
  /\ \E e \in DispatchedEvents : handler_dispatch(i, e)
  /\ UNCHANGED event

\* handler, lines 22-33, on any event, with the event kept for the
\* properties that relate what the invocation did to what it was given.
handler_traced(i) ==
  \E e \in Events :
    /\ handler_dispatch(i, e)
    /\ event' = [event EXCEPT ![i] = e]

\* send_notification, lines 195-205: the call record it leaves.  Nothing is
\* published when SNS_TOPIC is unset; an error of sns.publish is caught.
send_notification(subject) ==
  IF SNS_TOPIC
  THEN {[op |-> "notify", arg |-> subject, res |-> "sent"],
        [op |-> "notify", arg |-> subject, res |-> "error"]}
  ELSE {[op |-> "notify", arg |-> subject, res |-> "skipped"]}

\* initiate_failover, lines 73-75: the failover starts.
initiate_failover(i) ==
  /\ pc[i] = "initiate_failover"
  /\ start_time' = [start_time EXCEPT ![i] = now]
  /\ outcome' = [outcome EXCEPT ![i] = "PENDING"]
  /\ pc' = [pc EXCEPT ![i] = "verify"]
  /\ UNCHANGED <<now, SNS_TOPIC, failed_region, target_region, rto,
                 completed_at, calls, error, response>>
  /\ UNCHANGED <<event, healthVars, probeVars, validatorVars, testVars, otherVars>>

\* What Route 53 answers to verify_region_health.  A health check of the
\* list names a region in its FullyQualifiedDomainName (or none); its status
\* query raises or gives the observations of the checkers, in order.
Observations == {<<>>, <<"Failure">>, <<"Failure", "Success">>}
Route53HealthChecks ==
  [fqdn : Regions \cup {"none"}, raises : BOOLEAN, observations : Observations]
HealthCheckLists ==
  {<<>>} \cup {<<h>> : h \in Route53HealthChecks}
    \cup {<<h, g>> : h \in Route53HealthChecks, g \in Route53HealthChecks}
\* raises: list_health_checks raises
Route53Responses ==
  [raises : {FALSE}, HealthChecks : HealthCheckLists]
    \cup [raises : {TRUE}, HealthChecks : {<<>>}]

\* a checker of the list reports Success, lines 130-132
ReportsSuccess(observations) ==
  \E k \in 1..Len(observations) : observations[k] = "Success"

\* verify_region_health, lines 123-134: the loop over the health checks from
\* the k-th on; an error of get_health_check_status ends it with False
RECURSIVE ScanHealthChecks(_, _, _)
ScanHealthChecks(region, hcs, k) ==
  IF k > Len(hcs) THEN FALSE
  ELSE IF hcs[k].fqdn # region THEN ScanHealthChecks(region, hcs, k + 1)
  ELSE IF hcs[k].raises THEN FALSE
  ELSE IF ReportsSuccess(hcs[k].observations) THEN TRUE
  ELSE ScanHealthChecks(region, hcs, k + 1)

\* a verify_region_health that takes a failed query for a healthy region
verify_region_health_fail_open(region, r) ==
  IF r.raises THEN TRUE
  ELSE \E k \in 1..Len(r.HealthChecks) :
         /\ r.HealthChecks[k].fqdn = region
         /\ \/ r.HealthChecks[k].raises
            \/ ReportsSuccess(r.HealthChecks[k].observations)

\* verify_region_health, lines 117-138
verify_region_health(region, r) ==
  IF r.raises THEN FALSE ELSE ScanHealthChecks(region, r.HealthChecks, 1)

\* what verify_region_health can return for a region
VerifyOutcomes ==
  [g \in Regions |-> {verify_region_health(g, r) : r \in Route53Responses}]

\* initiate_failover that goes on to the redirect whatever the verification
\* returned (the raise of line 80 left out)
initiate_failover_verify_ignored(i) ==
  /\ pc[i] = "verify"
  /\ \E healthy \in VerifyOutcomes[target_region[i]] :
       /\ calls' = [calls EXCEPT ![i] = Append(@,
                      [op |-> "verify", arg |-> target_region[i],
                       res |-> IF healthy THEN "true" ELSE "false"])]
       /\ pc' = [pc EXCEPT ![i] = "redirect"]
       /\ error' = [error EXCEPT ![i] = "none"]
  /\ UNCHANGED <<now, SNS_TOPIC, failed_region, target_region, start_time,
                 rto, completed_at, outcome, response>>
  /\ UNCHANGED <<event, healthVars, probeVars, validatorVars, testVars, otherVars>>

\* an initiate_failover that goes from the verification to the RTO
initiate_failover_verify_skips_redirect(i) ==
  /\ pc[i] = "verify"
  /\ \E healthy \in VerifyOutcomes[target_region[i]] :
       /\ calls' = [calls EXCEPT ![i] = Append(@,
                      [op |-> "verify", arg |-> target_region[i],
                       res |-> IF healthy THEN "true" ELSE "false"])]
       /\ pc' = [pc EXCEPT ![i] = IF healthy THEN "rto" ELSE "except"]
       /\ error' = [error EXCEPT ![i] =
                      IF healthy THEN "none" ELSE "target_not_healthy"]
  /\ UNCHANGED <<now, SNS_TOPIC, failed_region, target_region, start_time,
                 rto, completed_at, outcome, response>>
  /\ UNCHANGED <<event, healthVars, probeVars, validatorVars, testVars, otherVars>>

\* initiate_failover, lines 78-80: verify the target, raise if not healthy.
initiate_failover_verify(i) ==
  /\ pc[i] = "verify"
  /\ \E healthy \in VerifyOutcomes[target_region[i]] :
       /\ calls' = [calls EXCEPT ![i] = Append(@,
                      [op |-> "verify", arg |-> target_region[i],
                       res |-> IF healthy THEN "true" ELSE "false"])]
       /\ pc' = [pc EXCEPT ![i] = IF healthy THEN "redirect" ELSE "except"]
       /\ error' = [error EXCEPT ![i] =
                      IF healthy THEN "none" ELSE "target_not_healthy"]
  /\ UNCHANGED <<now, SNS_TOPIC, failed_region, target_region, start_time,
                 rto, completed_at, outcome, response>>
  /\ UNCHANGED <<event, healthVars, probeVars, validatorVars, testVars, otherVars>>

\* update_health_checks, lines 140-150, called at line 83: one attempt, an
\* exception inside it is caught and printed, the caller continues.
update_health_checks(i) ==
  /\ pc[i] = "redirect"
  /\ \E res \in {"ok", "error"} :
       calls' = [calls EXCEPT ![i] = Append(@,
                   [op |-> "redirect", arg |-> target_region[i], res |-> res])]
  /\ pc' = [pc EXCEPT ![i] = "rto"]
  /\ UNCHANGED <<now, SNS_TOPIC, failed_region, target_region, start_time,
                 rto, completed_at, outcome, error, response>>
  /\ UNCHANGED <<event, healthVars, probeVars, validatorVars, testVars, otherVars>>

\* initiate_failover computing the difference the wrong way round
initiate_failover_rto_reversed(i) ==
  /\ pc[i] = "rto"
  /\ rto' = [rto EXCEPT ![i] = start_time[i] - now]
  /\ completed_at' = [completed_at EXCEPT ![i] = now]
  /\ outcome' = [outcome EXCEPT ![i] = "SUCCEEDED"]
  /\ pc' = [pc EXCEPT ![i] = "metrics"]
  /\ UNCHANGED <<now, SNS_TOPIC, failed_region, target_region, start_time,
                 calls, error, response>>
  /\ UNCHANGED <<event, healthVars, probeVars, validatorVars, testVars, otherVars>>

\* initiate_failover, line 86: rto = time.time() - start_time
initiate_failover_rto(i) ==
  /\ pc[i] = "rto"
  /\ rto' = [rto EXCEPT ![i] = now - start_time[i]]
  /\ completed_at' = [completed_at EXCEPT ![i] = now]
  /\ outcome' = [outcome EXCEPT ![i] = "SUCCEEDED"]
  /\ pc' = [pc EXCEPT ![i] = "metrics"]
  /\ UNCHANGED <<now, SNS_TOPIC, failed_region, target_region, start_time,
                 calls, error, response>>
  /\ UNCHANGED <<event, healthVars, probeVars, validatorVars, testVars, otherVars>>

\* a log_failover_metrics that lets the error of put_metric_data escape
log_failover_metrics_raising(i) ==
  /\ pc[i] = "metrics"
  /\ \E res \in {"recorded", "error"} :
       /\ calls' = [calls EXCEPT ![i] = Append(@,
                      [op |-> "metric", arg |-> "RTO", res |-> res])]
       /\ pc' = [pc EXCEPT ![i] =
                   IF res = "error" THEN "except" ELSE "notify_success"]
  /\ UNCHANGED <<now, SNS_TOPIC, failed_region, target_region, start_time,
                 rto, completed_at, outcome, error, response>>
  /\ UNCHANGED <<event, healthVars, probeVars, validatorVars, testVars, otherVars>>

\* log_failover_metrics, lines 166-193, called at line 89: one
\* put_metric_data carrying FailoverCount and RTO; an error is caught.
log_failover_metrics(i) ==
  /\ pc[i] = "metrics"
  /\ \E res \in {"recorded", "error"} :
       calls' = [calls EXCEPT ![i] = Append(@,
                   [op |-> "metric", arg |-> "RTO", res |-> res])]
  /\ pc' = [pc EXCEPT ![i] = "notify_success"]
  /\ UNCHANGED <<now, SNS_TOPIC, failed_region, target_region, start_time,
                 rto, completed_at, outcome, error, response>>
  /\ UNCHANGED <<event, healthVars, probeVars, validatorVars, testVars, otherVars>>

\* a success notification whose error reaches the except block
initiate_failover_notify_raising(i) ==
  /\ pc[i] = "notify_success"
  /\ \E c \in send_notification("FAILOVER") :
       /\ calls' = [calls EXCEPT ![i] = Append(@, c)]
       /\ pc' = [pc EXCEPT ![i] =
                   IF c.res = "error" THEN "except" ELSE "handler_return"]
  /\ UNCHANGED <<now, SNS_TOPIC, failed_region, target_region, start_time,
                 rto, completed_at, outcome, error, response>>
  /\ UNCHANGED <<event, healthVars, probeVars, validatorVars, testVars, otherVars>>

\* initiate_failover, lines 92-106: the success notification, then return.
initiate_failover_notify(i) ==
  /\ pc[i] = "notify_success"
  /\ \E c \in send_notification("FAILOVER") :
       calls' = [calls EXCEPT ![i] = Append(@, c)]
  /\ pc' = [pc EXCEPT ![i] = "handler_return"]
  /\ UNCHANGED <<now, SNS_TOPIC, failed_region, target_region, start_time,
                 rto, completed_at, outcome, error, response>>
  /\ UNCHANGED <<event, healthVars, probeVars, validatorVars, testVars, otherVars>>

\* an except block that raises again without the failure notification
initiate_failover_except_silent(i) ==
  /\ pc[i] = "except"
  /\ outcome' = [outcome EXCEPT ![i] = "FAILED"]
  /\ pc' = [pc EXCEPT ![i] = "handler_except"]
  /\ UNCHANGED <<now, SNS_TOPIC, failed_region, target_region, start_time,
                 rto, completed_at, calls, error, response>>
  /\ UNCHANGED <<event, healthVars, probeVars, validatorVars, testVars, otherVars>>

\* initiate_failover, lines 108-115: the except block: the failure
\* notification, then the exception is raised again.
initiate_failover_except(i) ==
  /\ pc[i] = "except"
  /\ outcome' = [outcome EXCEPT ![i] = "FAILED"]
  /\ \E c \in send_notification("FAILOVER FAILED") :
       calls' = [calls EXCEPT ![i] = Append(@, c)]
  /\ pc' = [pc EXCEPT ![i] = "handler_except"]
  /\ UNCHANGED <<now, SNS_TOPIC, failed_region, target_region, start_time,
                 rto, completed_at, error, response>>
  /\ UNCHANGED <<event, healthVars, probeVars, validatorVars, testVars, otherVars>>

\* handle_alarm, lines 63-68: the recovery notification of an OK alarm.
handle_alarm_recovery(i) ==
  /\ pc[i] = "recovery_notify"
  /\ \E c \in send_notification("Region Recovered") :
       calls' = [calls EXCEPT ![i] = Append(@, c)]
  /\ pc' = [pc EXCEPT ![i] = "handler_return"]
  /\ UNCHANGED <<now, SNS_TOPIC, failed_region, target_region, start_time,
                 rto, completed_at, outcome, error, response>>
  /\ UNCHANGED <<event, healthVars, probeVars, validatorVars, testVars, otherVars>>

\* handle_health_check_change, lines 152-164, status 'unhealthy'.
handle_health_check_change(i) ==
  /\ pc[i] = "hc_notify"
  /\ \E c \in send_notification("Health Check Unhealthy") :
       calls' = [calls EXCEPT ![i] = Append(@, c)]
  /\ pc' = [pc EXCEPT ![i] = "handler_return"]
  /\ UNCHANGED <<now, SNS_TOPIC, failed_region, target_region, start_time,
                 rto, completed_at, outcome, error, response>>
  /\ UNCHANGED <<event, healthVars, probeVars, validatorVars, testVars, otherVars>>

\* handler, lines 35-38: the normal response.
handler_return(i) ==
  /\ pc[i] = "handler_return"
  /\ response' = [response EXCEPT ![i] = "200"]
  /\ pc' = [pc EXCEPT ![i] = "done"]
  /\ UNCHANGED <<now, SNS_TOPIC, failed_region, target_region, start_time,
                 rto, completed_at, outcome, calls, error>>
  /\ UNCHANGED <<event, healthVars, probeVars, validatorVars, testVars, otherVars>>

\* handler, lines 40-45: every exception is caught and answered with a
\* statusCode 500 dictionary, which the handler returns.
handler_except(i) ==
  /\ pc[i] = "handler_except"
  /\ response' = [response EXCEPT ![i] = "500"]
  /\ pc' = [pc EXCEPT ![i] = "done"]
  /\ UNCHANGED <<now, SNS_TOPIC, failed_region, target_region, start_time,
                 rto, completed_at, outcome, calls, error>>
  /\ UNCHANGED <<event, healthVars, probeVars, validatorVars, testVars, otherVars>>

\* The invocation deadline: handler never reads context, so when the Lambda
\* runtime ends a running invocation nothing more of it is executed.
deadline_exceeded(i) ==
  /\ pc[i] \notin {"idle", "done"}
  /\ response' = [response EXCEPT ![i] = "timed_out"]
  /\ pc' = [pc EXCEPT ![i] = "done"]
  /\ UNCHANGED <<now, SNS_TOPIC, failed_region, target_region, start_time,
                 rto, completed_at, outcome, calls, error>>
  /\ UNCHANGED <<event, healthVars, probeVars, validatorVars, testVars, otherVars>>

Next ==
  \/ Tick
  \/ \E i \in Invocations : handler(i)
  \/ \E i \in Invocations : initiate_failover(i)
  \/ \E i \in Invocations : initiate_failover_verify(i)
  \/ \E i \in Invocations : update_health_checks(i)
  \/ \E i \in Invocations : initiate_failover_rto(i)
  \/ \E i \in Invocations : log_failover_metrics(i)
  \/ \E i \in Invocations : initiate_failover_notify(i)
  \/ \E i \in Invocations : initiate_failover_except(i)
  \/ \E i \in Invocations : handle_alarm_recovery(i)
  \/ \E i \in Invocations : handle_health_check_change(i)
  \/ \E i \in Invocations : handler_return(i)
  \/ \E i \in Invocations : handler_except(i)
  \/ \E i \in Invocations : deadline_exceeded(i)

Spec == Init /\ [][Next]_vars

\* One invocation, with the event it was given kept.
Traced == {"inv1"}

NextDispatch ==
  \/ Tick
  \/ \E i \in Traced : handler_traced(i)
  \/ \E i \in Traced : initiate_failover(i)
  \/ \E i \in Traced : initiate_failover_verify(i)
  \/ \E i \in Traced : update_health_checks(i)
  \/ \E i \in Traced : initiate_failover_rto(i)
  \/ \E i \in Traced : log_failover_metrics(i)
  \/ \E i \in Traced : initiate_failover_notify(i)
  \/ \E i \in Traced : initiate_failover_except(i)
  \/ \E i \in Traced : handle_alarm_recovery(i)
  \/ \E i \in Traced : handle_health_check_change(i)
  \/ \E i \in Traced : handler_return(i)
  \/ \E i \in Traced : handler_except(i)
  \/ \E i \in Traced : deadline_exceeded(i)

SpecDispatch == Init /\ [][NextDispatch]_vars

(* ========================== health checker ============================= *)

\* What check_dynamodb can return: the consistent read answered (with the
\* measured latency in ms) or raised.
HealthyResults ==
  {[status |-> "healthy", latency_ms |-> l, error |-> "none"] : l \in {4, 120}}
UnhealthyResults ==
  {[status |-> "unhealthy", latency_ms |-> -1, error |-> e] :
     e \in {"ReadTimeout", "Throttled"}}

\* a check_dynamodb whose unhealthy result carries a latency
check_dynamodb_latency_on_error ==
  /\ hc_pc = "idle"
  /\ samples < MaxSamples
  /\ \E r \in HealthyResults \cup
             {[status |-> "unhealthy", latency_ms |-> 120, error |-> e] :
                e \in {"ReadTimeout", "Throttled"}} :
       /\ dynamodb_health' = r
       /\ consecutive_failure_count' =
            IF r.status = "healthy" THEN 0 ELSE consecutive_failure_count + 1
       /\ consecutive_success_count' =
            IF r.status = "healthy" THEN consecutive_success_count + 1 ELSE 0
  /\ hc_published' = "none"
  /\ hc_alert' = "none"
  /\ hc_pc' = "publish_metrics"
  /\ UNCHANGED <<overall_status, samples>>
  /\ UNCHANGED <<orchVars, event, probeVars, validatorVars, testVars, otherVars>>

\* check_dynamodb, lines 68-90, called at line 29: one health sample.
check_dynamodb ==
  /\ hc_pc = "idle"
  /\ samples < MaxSamples
  /\ \E r \in HealthyResults \cup UnhealthyResults :
       /\ dynamodb_health' = r
       /\ consecutive_failure_count' =
            IF r.status = "healthy" THEN 0 ELSE consecutive_failure_count + 1
       /\ consecutive_success_count' =
            IF r.status = "healthy" THEN consecutive_success_count + 1 ELSE 0
  /\ hc_published' = "none"
  /\ hc_alert' = "none"
  /\ hc_pc' = "publish_metrics"
  /\ UNCHANGED <<overall_status, samples>>
  /\ UNCHANGED <<orchVars, event, probeVars, validatorVars, testVars, otherVars>>

\* a publish_metrics that lets the error of put_metric_data out: the handler
\* leaves its try block before the overall status is determined
publish_metrics_raising ==
  /\ hc_pc = "publish_metrics"
  /\ \E res \in {"published", "error"} :
       /\ hc_published' =
            IF dynamodb_health.status = "healthy" THEN res ELSE "skipped"
       /\ hc_pc' = IF hc_published' = "error" THEN "return" ELSE "overall"
  /\ UNCHANGED <<dynamodb_health, overall_status, hc_alert, samples,
                 consecutive_failure_count, consecutive_success_count>>
  /\ UNCHANGED <<orchVars, event, probeVars, validatorVars, testVars, otherVars>>

\* publish_metrics, lines 92-124: put_metric_data only for a healthy check;
\* an error of it is caught.
publish_metrics ==
  /\ hc_pc = "publish_metrics"
  /\ \E res \in {"published", "error"} :
       hc_published' =
         IF dynamodb_health.status = "healthy" THEN res ELSE "skipped"
  /\ hc_pc' = "overall"
  /\ UNCHANGED <<dynamodb_health, overall_status, hc_alert, samples,
                 consecutive_failure_count, consecutive_success_count>>
  /\ UNCHANGED <<orchVars, event, probeVars, validatorVars, testVars, otherVars>>

\* the keys of health_status['checks'], lines 28-30: the one check made
HealthChecks == {"dynamodb"}

\* handler, lines 36-45: overall status of this run, alert if unhealthy
\* (send_alert, lines 126-145, catches the error of sns.publish).
health_overall ==
  /\ hc_pc = "overall"
  /\ LET all_healthy ==
           \A c \in HealthChecks : dynamodb_health.status = "healthy" IN
       /\ overall_status' = IF all_healthy THEN "healthy" ELSE "unhealthy"
       /\ \E res \in {"sent", "error"} :
            hc_alert' = IF all_healthy THEN "none" ELSE res
  /\ hc_pc' = "return"
  /\ UNCHANGED <<dynamodb_health, hc_published, samples,
                 consecutive_failure_count, consecutive_success_count>>
  /\ UNCHANGED <<orchVars, event, probeVars, validatorVars, testVars, otherVars>>

\* handler, lines 47-53: the response; the next scheduled run may start.
health_return ==
  /\ hc_pc = "return"
  /\ samples' = samples + 1
  /\ hc_pc' = "idle"
  /\ UNCHANGED <<dynamodb_health, overall_status, hc_published, hc_alert,
                 consecutive_failure_count, consecutive_success_count>>
  /\ UNCHANGED <<orchVars, event, probeVars, validatorVars, testVars, otherVars>>

NextHealth ==
  \/ check_dynamodb
  \/ publish_metrics
  \/ health_overall
  \/ health_return

SpecHealth == Init /\ [][NextHealth]_vars

(* ===================== replication-lag probe =========================== *)

\* The clock counts polling intervals of 200 ms.
IntervalMs == 200
\* time.sleep(2), line 85, in seconds
SleepSeconds == 2
max_attempts == 10

\* int(time.time()): the whole seconds of the clock
Seconds(t) == (t * IntervalMs) \div 1000

\* Keys are numbered: the marker key 'replication-test-<s>' of second s is
\* the number s; the keys of application items, which the traffic router
\* names by uuid4, are numbered from 100 on.
AppKeys == {100, 101}

\* a probe that writes its marker under the key of an application item
probe_put_app_key(p) ==
  /\ probe_pc[p] = "idle"
  /\ \E k \in AppKeys :
       /\ test_id' = [test_id EXCEPT ![p] = k]
       /\ table_primary' = table_primary \cup {k}
  /\ write_time' = [write_time EXCEPT ![p] = now]
  /\ probe_pc' = [probe_pc EXCEPT ![p] = "sleep"]
  /\ UNCHANGED <<now, attempt, observed_ts, lag, result, deletes_issued,
                 visible_ts, table_secondary>>
  /\ UNCHANGED <<SNS_TOPIC, pc, failed_region, target_region, start_time,
                 rto, completed_at, outcome, calls, error, response>>
  /\ UNCHANGED <<event, healthVars, validatorVars, testVars, otherVars>>

\* check_replication_lag, lines 72-82: the marker key and the write time are
\* taken from the clock, then the marker is put into the primary table.  An
\* error of put_item leaves the function through its outer handler.
probe_put(p) ==
  /\ probe_pc[p] = "idle"
  /\ test_id' = [test_id EXCEPT ![p] = Seconds(now)]
  /\ write_time' = [write_time EXCEPT ![p] = now]
  /\ \E ok \in BOOLEAN :
       /\ table_primary' =
            IF ok THEN table_primary \cup {Seconds(now)} ELSE table_primary
       /\ probe_pc' = [probe_pc EXCEPT ![p] = IF ok THEN "sleep" ELSE "error"]
  /\ UNCHANGED <<now, attempt, observed_ts, lag, result, deletes_issued,
                 visible_ts, table_secondary>>
  /\ UNCHANGED <<SNS_TOPIC, pc, failed_region, target_region, start_time,
                 rto, completed_at, outcome, calls, error, response>>
  /\ UNCHANGED <<event, healthVars, validatorVars, testVars, otherVars>>

\* check_replication_lag, line 85: time.sleep(2) before the first poll.
probe_sleep(p) ==
  /\ probe_pc[p] = "sleep"
  /\ now + (SleepSeconds * 1000) \div IntervalMs <= MaxProbeClock
  /\ now' = now + (SleepSeconds * 1000) \div IntervalMs
  /\ attempt' = [attempt EXCEPT ![p] = 0]
  /\ probe_pc' = [probe_pc EXCEPT ![p] = "poll"]
  /\ UNCHANGED <<test_id, write_time, observed_ts, lag, result,
                 deletes_issued, visible_ts, table_primary, table_secondary>>
  /\ UNCHANGED <<SNS_TOPIC, pc, failed_region, target_region, start_time,
                 rto, completed_at, outcome, calls, error, response>>
  /\ UNCHANGED <<event, healthVars, validatorVars, testVars, otherVars>>

\* a poll that takes the marker for read although get_item returned no Item
probe_poll_fabricating(p) ==
  /\ probe_pc[p] = "poll"
  /\ attempt[p] < max_attempts
  /\ \E raised \in BOOLEAN :
       IF raised
       THEN /\ probe_pc' = [probe_pc EXCEPT ![p] = "poll_failed"]
            /\ UNCHANGED <<observed_ts, lag>>
       ELSE /\ lag' = [lag EXCEPT ![p] = (now - write_time[p]) * IntervalMs]
            /\ observed_ts' = [observed_ts EXCEPT ![p] =
                 IF test_id[p] \in table_secondary THEN now ELSE @]
            /\ probe_pc' = [probe_pc EXCEPT ![p] = "cleanup"]
  /\ UNCHANGED <<now, test_id, write_time, attempt, result, deletes_issued,
                 visible_ts, table_primary, table_secondary>>
  /\ UNCHANGED <<SNS_TOPIC, pc, failed_region, target_region, start_time,
                 rto, completed_at, outcome, calls, error, response>>
  /\ UNCHANGED <<event, healthVars, validatorVars, testVars, otherVars>>

\* check_replication_lag, lines 90-99: one poll: the consistent get_item of
\* the marker in the secondary table raises, returns the Item (then the lag
\* is computed from the clock) or returns no Item.
probe_poll(p) ==
  /\ probe_pc[p] = "poll"
  /\ attempt[p] < max_attempts
  /\ \E raised \in BOOLEAN :
       IF raised
       THEN /\ probe_pc' = [probe_pc EXCEPT ![p] = "poll_failed"]
            /\ UNCHANGED <<observed_ts, lag>>
       ELSE IF test_id[p] \in table_secondary
            THEN /\ lag' = [lag EXCEPT ![p] =
                      (now - write_time[p]) * IntervalMs]
                 /\ observed_ts' = [observed_ts EXCEPT ![p] = now]
                 /\ probe_pc' = [probe_pc EXCEPT ![p] = "cleanup"]
            ELSE /\ probe_pc' = [probe_pc EXCEPT ![p] = "poll_missed"]
                 /\ UNCHANGED <<observed_ts, lag>>
  /\ UNCHANGED <<now, test_id, write_time, attempt, result, deletes_issued,
                 visible_ts, table_primary, table_secondary>>
  /\ UNCHANGED <<SNS_TOPIC, pc, failed_region, target_region, start_time,
                 rto, completed_at, outcome, calls, error, response>>
  /\ UNCHANGED <<event, healthVars, validatorVars, testVars, otherVars>>

\* a cleanup that deletes the marker from the primary table only
probe_cleanup_primary_only(p) ==
  /\ probe_pc[p] = "cleanup"
  /\ \E failing \in {"none", "primary"} :
       /\ table_primary' =
            IF failing = "primary" THEN table_primary
            ELSE table_primary \ {test_id[p]}
       /\ IF failing = "none"
          THEN /\ result' = [result EXCEPT ![p] =
                    [status |-> "success", lag_ms |-> lag[p]]]
               /\ probe_pc' = [probe_pc EXCEPT ![p] = "done"]
          ELSE /\ result' = result
               /\ probe_pc' = [probe_pc EXCEPT ![p] = "poll_failed"]
       /\ deletes_issued' = [deletes_issued EXCEPT ![p] = @ \cup {"primary"}]
  /\ UNCHANGED <<now, test_id, write_time, attempt, observed_ts, lag,
                 visible_ts, table_secondary>>
  /\ UNCHANGED <<SNS_TOPIC, pc, failed_region, target_region, start_time,
                 rto, completed_at, outcome, calls, error, response>>
  /\ UNCHANGED <<event, healthVars, validatorVars, testVars, otherVars>>

\* check_replication_lag, lines 101-108: the marker is deleted from the
\* primary and then from the secondary table and the success dictionary is
\* returned; an error of either delete_item is raised inside the loop's try.
probe_cleanup(p) ==
  /\ probe_pc[p] = "cleanup"
  /\ \E failing \in {"none", "primary", "secondary"} :
       /\ table_primary' =
            IF failing = "primary" THEN table_primary
            ELSE table_primary \ {test_id[p]}
       /\ table_secondary' =
            IF failing = "none" THEN table_secondary \ {test_id[p]}
            ELSE table_secondary
       /\ IF failing = "none"
          THEN /\ result' = [result EXCEPT ![p] =
                    [status |-> "success", lag_ms |-> lag[p]]]
               /\ probe_pc' = [probe_pc EXCEPT ![p] = "done"]
          ELSE /\ result' = result
               /\ probe_pc' = [probe_pc EXCEPT ![p] = "poll_failed"]
       /\ deletes_issued' = [deletes_issued EXCEPT ![p] =
            IF failing = "primary" THEN @ \cup {"primary"}
            ELSE @ \cup {"primary", "secondary"}]
  /\ UNCHANGED <<now, test_id, write_time, attempt, observed_ts, lag,
                 visible_ts>>
  /\ UNCHANGED <<SNS_TOPIC, pc, failed_region, target_region, start_time,
                 rto, completed_at, outcome, calls, error, response>>
  /\ UNCHANGED <<event, healthVars, validatorVars, testVars, otherVars>>

\* The rest of the poll loop: after a poll that found nothing, or whose
\* try block raised, the probe waits one polling interval and goes to the
\* next attempt.
probe_next_attempt(p) ==
  /\ probe_pc[p] \in {"poll_missed", "poll_failed"}
  /\ now + 1 <= MaxProbeClock
  /\ now' = now + 1
  /\ attempt' = [attempt EXCEPT ![p] = @ + 1]
  /\ probe_pc' = [probe_pc EXCEPT ![p] = "poll"]
  /\ UNCHANGED <<test_id, write_time, observed_ts, lag, result,
                 deletes_issued, visible_ts, table_primary, table_secondary>>
  /\ UNCHANGED <<SNS_TOPIC, pc, failed_region, target_region, start_time,
                 rto, completed_at, outcome, calls, error, response>>
  /\ UNCHANGED <<event, healthVars, validatorVars, testVars, otherVars>>

\* After the last attempt: a delete of the marker is issued to both tables
\* (either may fail) and the probe reports a timeout, without a lag.
probe_timeout(p) ==
  /\ probe_pc[p] = "poll"
  /\ attempt[p] >= max_attempts
  /\ \E failing \in SUBSET {"primary", "secondary"} :
       /\ table_primary' =
            IF "primary" \in failing THEN table_primary
            ELSE table_primary \ {test_id[p]}
       /\ table_secondary' =
            IF "secondary" \in failing THEN table_secondary
            ELSE table_secondary \ {test_id[p]}
  /\ deletes_issued' = [deletes_issued EXCEPT ![p] = {"primary", "secondary"}]
  /\ result' = [result EXCEPT ![p] = [status |-> "timeout", lag_ms |-> -1]]
  /\ probe_pc' = [probe_pc EXCEPT ![p] = "done"]
  /\ UNCHANGED <<now, test_id, write_time, attempt, observed_ts, lag,
                 visible_ts>>
  /\ UNCHANGED <<SNS_TOPIC, pc, failed_region, target_region, start_time,
                 rto, completed_at, outcome, calls, error, response>>
  /\ UNCHANGED <<event, healthVars, validatorVars, testVars, otherVars>>

\* The outer handler of check_replication_lag: an error outside the poll
\* loop is reported as status error, without a lag.
probe_error(p) ==
  /\ probe_pc[p] = "error"
  /\ result' = [result EXCEPT ![p] = [status |-> "error", lag_ms |-> -1]]
  /\ probe_pc' = [probe_pc EXCEPT ![p] = "done"]
  /\ UNCHANGED <<now, test_id, write_time, attempt, observed_ts, lag,
                 deletes_issued, visible_ts, table_primary, table_secondary>>
  /\ UNCHANGED <<SNS_TOPIC, pc, failed_region, target_region, start_time,
                 rto, completed_at, outcome, calls, error, response>>
  /\ UNCHANGED <<event, healthVars, validatorVars, testVars, otherVars>>

\* The replicated store (DynamoDB global table behind dynamodb_primary and
\* dynamodb_secondary): an item put into the primary table appears in the
\* secondary table some time later.
replicate ==
  /\ \E k \in table_primary \ table_secondary :
       /\ table_secondary' = table_secondary \cup {k}
       /\ visible_ts' = [p \in Probes |->
            IF test_id[p] = k /\ visible_ts[p] = -1 THEN now
            ELSE visible_ts[p]]
  /\ UNCHANGED <<now, probe_pc, test_id, write_time, attempt, observed_ts,
                 lag, result, deletes_issued, table_primary>>
  /\ UNCHANGED <<SNS_TOPIC, pc, failed_region, target_region, start_time,
                 rto, completed_at, outcome, calls, error, response>>
  /\ UNCHANGED <<event, healthVars, validatorVars, testVars, otherVars>>

\* time passes
probe_tick ==
  /\ now < MaxProbeClock
  /\ now' = now + 1
  /\ UNCHANGED <<probe_pc, test_id, write_time, attempt, observed_ts,
                 lag, result, deletes_issued, visible_ts, table_primary,
                 table_secondary>>
  /\ UNCHANGED <<SNS_TOPIC, pc, failed_region, target_region, start_time,
                 rto, completed_at, outcome, calls, error, response>>
  /\ UNCHANGED <<event, healthVars, validatorVars, testVars, otherVars>>

NextProbe ==
  \/ probe_tick
  \/ replicate
  \/ \E p \in FirstProbe : probe_put(p)
  \/ \E p \in FirstProbe : probe_sleep(p)
  \/ \E p \in FirstProbe : probe_poll(p)
  \/ \E p \in FirstProbe : probe_cleanup(p)
  \/ \E p \in FirstProbe : probe_next_attempt(p)
  \/ \E p \in FirstProbe : probe_timeout(p)
  \/ \E p \in FirstProbe : probe_error(p)

SpecProbe == Init /\ [][NextProbe]_vars

\* Two overlapping probes; the clock advances by their sleeps only.
NextOverlap ==
  \/ replicate
  \/ \E p \in Probes : probe_put(p)
  \/ \E p \in Probes : probe_sleep(p)
  \/ \E p \in Probes : probe_poll(p)
  \/ \E p \in Probes : probe_cleanup(p)
  \/ \E p \in Probes : probe_next_attempt(p)
  \/ \E p \in Probes : probe_timeout(p)
  \/ \E p \in Probes : probe_error(p)

SpecOverlap == Init /\ [][NextOverlap]_vars

\* The invocation's deadline passes while the probe is in flight. The handler
\* never reads its context and check_replication_lag takes no argument, so
\* the probe does not see the deadline: the runtime ends the invocation where
\* it is.
InFlight == {"sleep", "poll", "cleanup", "poll_missed", "poll_failed"}

probe_deadline(p) ==
  /\ probe_pc[p] \in InFlight
  /\ probe_pc' = [probe_pc EXCEPT ![p] = "killed"]
  /\ UNCHANGED <<now, test_id, write_time, attempt, observed_ts, lag, result,
                 deletes_issued, visible_ts, table_primary, table_secondary>>
  /\ UNCHANGED <<SNS_TOPIC, pc, failed_region, target_region, start_time,
                 rto, completed_at, outcome, calls, error, response>>
  /\ UNCHANGED <<event, healthVars, validatorVars, testVars, otherVars>>

\* One probe under a deadline; the clock advances by its sleeps only.
NextDeadline ==
  \/ replicate
  \/ \E p \in FirstProbe : probe_put(p)
  \/ \E p \in FirstProbe : probe_sleep(p)
  \/ \E p \in FirstProbe : probe_poll(p)
  \/ \E p \in FirstProbe : probe_cleanup(p)
  \/ \E p \in FirstProbe : probe_next_attempt(p)
  \/ \E p \in FirstProbe : probe_timeout(p)
  \/ \E p \in FirstProbe : probe_error(p)
  \/ \E p \in FirstProbe : probe_deadline(p)

SpecDeadline == Init /\ [][NextDeadline]_vars

\* The tables hold application items when the validator runs: any of them,
\* replicated or not yet.
InitReportOnly ==
  /\ OrchInit /\ event = [i \in Invocations |-> NoEvent]
  /\ HealthInit /\ ValidatorInit /\ TestInit
  /\ EndpointInit /\ MonitorInit /\ VerifyInit /\ AlbInit
  /\ probe_pc = [p \in Probes |-> "idle"]
  /\ test_id = [p \in Probes |-> -1]
  /\ write_time = [p \in Probes |-> -1]
  /\ attempt = [p \in Probes |-> 0]
  /\ observed_ts = [p \in Probes |-> -1]
  /\ lag = [p \in Probes |-> -1]
  /\ result = [p \in Probes |-> NoResult]
  /\ deletes_issued = [p \in Probes |-> {}]
  /\ visible_ts = [p \in Probes |-> -1]
  /\ table_primary \in SUBSET AppKeys
  /\ table_secondary \in SUBSET AppKeys

\* One probe over tables that hold application items.
NextReportOnly ==
  \/ replicate
  \/ \E p \in FirstProbe : probe_put(p)
  \/ \E p \in FirstProbe : probe_sleep(p)
  \/ \E p \in FirstProbe : probe_poll(p)
  \/ \E p \in FirstProbe : probe_cleanup(p)
  \/ \E p \in FirstProbe : probe_next_attempt(p)
  \/ \E p \in FirstProbe : probe_timeout(p)
  \/ \E p \in FirstProbe : probe_error(p)

SpecReportOnly == InitReportOnly /\ [][NextReportOnly]_vars

(* ==================== data-consistency validator ======================= *)

\* the latency threshold of the overall status, in ms
LagThresholdMs == 5000

\* lags check_replication_lag may report, around the sleep of 2 s and the
\* threshold
LagSamples == {2000, 4800, 5000, 5200}

\* what check_replication_lag returns
LagResults ==
  {[status |-> "success", lag_ms |-> l] : l \in LagSamples}
    \cup {[status |-> "timeout", lag_ms |-> -1],
          [status |-> "error", lag_ms |-> -1]}

\* what a region holds under a candidate key
ItemValues == {"absent", "v1", "v2"}

\* resolution of the ConflictRecord of a key holding a in one region and b
\* in the other
Resolution(a, b) ==
  IF a = "absent" \/ b = "absent" THEN "UNRESOLVED"
  ELSE IF a = b THEN "CONVERGED" ELSE "DIVERGED"

\* detect_conflicts: the resolution of every candidate key
detect_conflicts(region_a, region_b) ==
  [k \in ConflictKeys |-> Resolution(region_a[k], region_b[k])]

Diverged(c) == \E k \in ConflictKeys : c[k] = "DIVERGED"

determine_overall_status_lag_first(l, c) ==
  IF l.status # "success" \/ l.lag_ms > LagThresholdMs THEN "degraded"
  ELSE IF Diverged(c) THEN "critical"
  ELSE "healthy"

\* determine_overall_status: critical on a diverged conflict, else degraded
\* when the probe timed out, failed or measured a lag over the threshold,
\* else healthy
determine_overall_status(l, c) ==
  IF Diverged(c) THEN "critical"
  ELSE IF l.status # "success" \/ l.lag_ms > LagThresholdMs THEN "degraded"
  ELSE "healthy"

\* handler, lines 32-42: the three checks.
validator_checks ==
  /\ v_pc = "idle"
  /\ \E l \in LagResults : replication_lag' = l
  /\ \E region_a \in [ConflictKeys -> ItemValues],
        region_b \in [ConflictKeys -> ItemValues] :
       conflicts' = detect_conflicts(region_a, region_b)
  /\ v_pc' = "status"
  /\ UNCHANGED <<status, v_alert, v_response>>
  /\ UNCHANGED <<orchVars, event, healthVars, probeVars, testVars, otherVars>>

\* a handler that takes a probe timeout for a hard consistency failure
validator_status_timeout_critical ==
  /\ v_pc = "status"
  /\ status' = IF replication_lag.status = "timeout" THEN "critical"
               ELSE determine_overall_status(replication_lag, conflicts)
  /\ v_pc' = "alert"
  /\ UNCHANGED <<replication_lag, conflicts, v_alert, v_response>>
  /\ UNCHANGED <<orchVars, event, healthVars, probeVars, testVars, otherVars>>

\* handler, lines 44-45: the overall status of the checks.
validator_status ==
  /\ v_pc = "status"
  /\ status' = determine_overall_status(replication_lag, conflicts)
  /\ v_pc' = "alert"
  /\ UNCHANGED <<replication_lag, conflicts, v_alert, v_response>>
  /\ UNCHANGED <<orchVars, event, healthVars, probeVars, testVars, otherVars>>

\* handler, lines 47-52: metrics, then an alert unless healthy.
validator_alert ==
  /\ v_pc = "alert"
  /\ IF status # "healthy"
     THEN v_alert' \in {"sent", "error"}
     ELSE v_alert' = "none"
  /\ v_pc' = "return"
  /\ UNCHANGED <<replication_lag, conflicts, status, v_response>>
  /\ UNCHANGED <<orchVars, event, healthVars, probeVars, testVars, otherVars>>

\* handler, lines 54-57
validator_return ==
  /\ v_pc = "return"
  /\ v_response' = "200"
  /\ v_pc' = "done"
  /\ UNCHANGED <<replication_lag, conflicts, status, v_alert>>
  /\ UNCHANGED <<orchVars, event, healthVars, probeVars, testVars, otherVars>>

\* handler, lines 59-64: an exception of any step is answered with 500.
validator_except ==
  /\ v_pc \in {"idle", "status", "alert"}
  /\ v_response' = "500"
  /\ v_pc' = "done"
  /\ UNCHANGED <<replication_lag, conflicts, status, v_alert>>
  /\ UNCHANGED <<orchVars, event, healthVars, probeVars, testVars, otherVars>>

NextValidator ==
  \/ validator_checks
  \/ validator_status
  \/ validator_alert
  \/ validator_return
  \/ validator_except

SpecValidator == Init /\ [][NextValidator]_vars

(* ============== data-integrity tests, test_concurrent_writes =========== *)

\* lines 194-206: the two items written under base_id
primary_data == [source |-> "primary", value |-> 100]
secondary_data == [source |-> "secondary", value |-> 200]

\* get_item without ConsistentRead, lines 217-218: an eventually consistent
\* read gives the stored item or the state before it was written.
get_item(stored) == {stored, NoItem}

Converged_absent_matches(a, b) == a = b \/ b = NoItem

\* line 224: primary_result.get('Item') == secondary_result.get('Item')
Converged(a, b) == a = b

\* line 208
cw_put_primary ==
  /\ cw_pc = "idle"
  /\ item_primary' = primary_data
  /\ cw_pc' = "put_secondary"
  /\ UNCHANGED <<item_secondary, primary_result, secondary_result, converged,
                 cw_status>>
  /\ UNCHANGED <<orchVars, event, healthVars, probeVars, validatorVars, otherVars>>

\* lines 209-210: the later write, which wins in both regions
cw_put_secondary ==
  /\ cw_pc = "put_secondary"
  /\ item_secondary' = secondary_data
  /\ cw_pc' = "settle"
  /\ UNCHANGED <<item_primary, primary_result, secondary_result, converged,
                 cw_status>>
  /\ UNCHANGED <<orchVars, event, healthVars, probeVars, validatorVars, otherVars>>

\* the global table replicates a write to the other region, where the
\* later write wins: primary_data reaches an empty secondary, secondary_data
\* replaces what the primary holds, the delete of line 229 removes the item.
cw_replicate ==
  /\ \/ /\ cw_pc # "done"
        /\ item_primary = primary_data /\ item_secondary = NoItem
        /\ item_secondary' = primary_data
        /\ UNCHANGED item_primary
     \/ /\ cw_pc # "done"
        /\ item_secondary = secondary_data /\ item_primary # secondary_data
        /\ item_primary' = secondary_data
        /\ UNCHANGED item_secondary
     \/ /\ cw_pc = "done"
        /\ item_secondary # NoItem
        /\ item_secondary' = NoItem
        /\ UNCHANGED item_primary
  /\ UNCHANGED <<cw_pc, primary_result, secondary_result, converged,
                 cw_status>>
  /\ UNCHANGED <<orchVars, event, healthVars, probeVars, validatorVars, otherVars>>

\* lines 212-217: after the sleep, read the final state of the primary
cw_get_primary ==
  /\ cw_pc = "settle"
  /\ primary_result' \in get_item(item_primary)
  /\ cw_pc' = "get_secondary"
  /\ UNCHANGED <<item_primary, item_secondary, secondary_result, converged,
                 cw_status>>
  /\ UNCHANGED <<orchVars, event, healthVars, probeVars, validatorVars, otherVars>>

\* line 218: read the final state of the secondary
cw_get_secondary ==
  /\ cw_pc = "get_secondary"
  /\ secondary_result' \in get_item(item_secondary)
  /\ cw_pc' = "check"
  /\ UNCHANGED <<item_primary, item_secondary, primary_result, converged,
                 cw_status>>
  /\ UNCHANGED <<orchVars, event, healthVars, probeVars, validatorVars, otherVars>>

\* lines 223-226
cw_check ==
  /\ cw_pc = "check"
  /\ converged' = Converged(primary_result, secondary_result)
  /\ cw_pc' = "cleanup"
  /\ UNCHANGED <<item_primary, item_secondary, primary_result,
                 secondary_result, cw_status>>
  /\ UNCHANGED <<orchVars, event, healthVars, probeVars, validatorVars, otherVars>>

\* lines 228-235: delete from the primary table and report
cw_cleanup ==
  /\ cw_pc = "cleanup"
  /\ item_primary' = NoItem
  /\ cw_status' = IF converged THEN "PASS" ELSE "FAIL"
  /\ cw_pc' = "done"
  /\ UNCHANGED <<item_secondary, primary_result, secondary_result, converged>>
  /\ UNCHANGED <<orchVars, event, healthVars, probeVars, validatorVars, otherVars>>

\* lines 208-229: a call of put_item, get_item or delete_item that raises
\* ends the test, which has no try block: nothing is reported and nothing
\* more is deleted.
cw_raise ==
  /\ cw_pc \in {"idle", "put_secondary", "settle", "get_secondary", "cleanup"}
  /\ cw_pc' = "raised"
  /\ UNCHANGED <<item_primary, item_secondary, primary_result,
                 secondary_result, converged, cw_status>>
  /\ UNCHANGED <<orchVars, event, healthVars, probeVars, validatorVars, otherVars>>

NextConflict ==
  \/ cw_put_primary
  \/ cw_put_secondary
  \/ cw_replicate
  \/ cw_get_primary
  \/ cw_get_secondary
  \/ cw_check
  \/ cw_cleanup
  \/ cw_raise

SpecConflict == Init /\ [][NextConflict]_vars

(* ======================== monitoring loops ============================= *)

\* required_successes, chaos-engineering.py line 89, rto-calculator.py line 82
required_successes == 3
\* time.sleep(5), chaos-engineering.py line 110; check_interval,
\* rto-calculator.py line 85
check_interval == 5
\* max_wait of the monitoring loop of rto-calculator.py, line 84
max_wait == 300

\* seconds a request of measure_failover_time may take (timeout=5, line 93)
FailoverRequestSeconds == {0, 1, 5}
\* seconds the two checks of an iteration of the monitoring loop may take
\* together (timeout=3 each, lines 91-94)
MonitorCheckSeconds == {0, 3, 6}

\* measure_failover_time, lines 81-89
ft_start ==
  /\ ft_pc = "idle"
  /\ ft_max_wait' \in MaxWaits
  /\ ft_elapsed' = 0
  /\ ft_successes' = 0
  /\ ft_pc' = "test"
  /\ UNCHANGED <<ft_result, rm_pc, rm_elapsed, failover_detected,
                 rm_successes, rm_result>>
  /\ ft_history' = <<>>
  /\ UNCHANGED <<orchVars, event, healthVars, probeVars, validatorVars,
                 testVars, endpointVars, verifyVars,
                 albVars>>

\* a loop test that is always true
ft_test_unbounded ==
  /\ ft_pc = "test"
  /\ ft_pc' = "request"
  /\ UNCHANGED <<ft_max_wait, ft_elapsed, ft_successes, ft_result, rm_pc,
                 rm_elapsed, failover_detected, rm_successes, rm_result>>
  /\ UNCHANGED ft_history
  /\ UNCHANGED <<orchVars, event, healthVars, probeVars, validatorVars,
                 testVars, endpointVars, verifyVars,
                 albVars>>

\* measure_failover_time, line 91 and lines 112-113: the loop test
ft_test ==
  /\ ft_pc = "test"
  /\ IF ft_elapsed < ft_max_wait
     THEN /\ ft_pc' = "request"
          /\ UNCHANGED ft_result
     ELSE /\ ft_pc' = "done"
          /\ ft_result' = -1
  /\ UNCHANGED <<ft_max_wait, ft_elapsed, ft_successes, rm_pc,
                 rm_elapsed, failover_detected, rm_successes, rm_result>>
  /\ UNCHANGED ft_history
  /\ UNCHANGED <<orchVars, event, healthVars, probeVars, validatorVars,
                 testVars, endpointVars, verifyVars,
                 albVars>>

\* what a request of /health can give: status 200, another status, or an
\* exception of requests.get (lines 93-107)
HealthResponses == {"200", "503", "exception"}

\* a request whose failure leaves the count of successes as it is
ft_request_no_reset ==
  /\ ft_pc = "request"
  /\ \E d \in FailoverRequestSeconds, resp \in HealthResponses :
       /\ ft_elapsed' = ft_elapsed + d
       /\ ft_history' = Append(ft_history, resp)
       /\ ft_successes' = IF resp = "200" THEN ft_successes + 1
                          ELSE ft_successes
       /\ IF resp = "200" /\ ft_successes + 1 >= required_successes
          THEN /\ ft_result' = ft_elapsed + d
               /\ ft_pc' = "done"
          ELSE /\ UNCHANGED ft_result
               /\ ft_pc' = "sleep"
  /\ UNCHANGED <<ft_max_wait, rm_pc, rm_elapsed, failover_detected,
                 rm_successes, rm_result>>
  /\ UNCHANGED <<orchVars, event, healthVars, probeVars, validatorVars,
                 testVars, endpointVars, verifyVars,
                 albVars>>

\* measure_failover_time, lines 92-107: one request of /health
ft_request ==
  /\ ft_pc = "request"
  /\ \E d \in FailoverRequestSeconds, resp \in HealthResponses :
       /\ ft_elapsed' = ft_elapsed + d
       /\ ft_history' = Append(ft_history, resp)
       /\ ft_successes' = IF resp = "200" THEN ft_successes + 1 ELSE 0
       /\ IF resp = "200" /\ ft_successes + 1 >= required_successes
          THEN /\ ft_result' = ft_elapsed + d
               /\ ft_pc' = "done"
          ELSE /\ UNCHANGED ft_result
               /\ ft_pc' = "sleep"
  /\ UNCHANGED <<ft_max_wait, rm_pc, rm_elapsed, failover_detected,
                 rm_successes, rm_result>>
  /\ UNCHANGED <<orchVars, event, healthVars, probeVars, validatorVars,
                 testVars, endpointVars, verifyVars,
                 albVars>>

\* measure_failover_time, line 110
ft_sleep ==
  /\ ft_pc = "sleep"
  /\ ft_elapsed' = ft_elapsed + check_interval
  /\ ft_pc' = "test"
  /\ UNCHANGED <<ft_max_wait, ft_successes, ft_result, rm_pc, rm_elapsed,
                 failover_detected, rm_successes, rm_result>>
  /\ UNCHANGED ft_history
  /\ UNCHANGED <<orchVars, event, healthVars, probeVars, validatorVars,
                 testVars, endpointVars, verifyVars,
                 albVars>>

\* simulate_failure_and_measure_rto, lines 74-85
rm_start ==
  /\ rm_pc = "idle"
  /\ rm_elapsed' = 0
  /\ failover_detected' = FALSE
  /\ rm_successes' = 0
  /\ rm_pc' = "test"
  /\ UNCHANGED <<ft_pc, ft_max_wait, ft_elapsed, ft_successes, ft_result,
                 rm_result>>
  /\ UNCHANGED ft_history
  /\ UNCHANGED <<orchVars, event, healthVars, probeVars, validatorVars,
                 testVars, endpointVars, verifyVars,
                 albVars>>

\* simulate_failure_and_measure_rto, line 87 and lines 120-122
rm_test ==
  /\ rm_pc = "test"
  /\ IF rm_elapsed < max_wait
     THEN /\ rm_pc' = "check"
          /\ UNCHANGED rm_result
     ELSE /\ rm_pc' = "done"
          /\ rm_result' = -1
  /\ UNCHANGED <<ft_pc, ft_max_wait, ft_elapsed, ft_successes, ft_result,
                 rm_elapsed, failover_detected, rm_successes>>
  /\ UNCHANGED ft_history
  /\ UNCHANGED <<orchVars, event, healthVars, probeVars, validatorVars,
                 testVars, endpointVars, verifyVars,
                 albVars>>

\* simulate_failure_and_measure_rto, lines 91-116: the two checks and what
\* they change
rm_check ==
  /\ rm_pc = "check"
  /\ \E d \in MonitorCheckSeconds, primary_up \in BOOLEAN,
        secondary_up \in BOOLEAN :
       LET detected == failover_detected \/ ~primary_up IN
       /\ rm_elapsed' = rm_elapsed + d
       /\ failover_detected' = detected
       /\ rm_successes' = IF detected /\ secondary_up
                          THEN rm_successes + 1 ELSE 0
       /\ IF detected /\ secondary_up
             /\ rm_successes + 1 >= required_successes
          THEN /\ rm_result' = rm_elapsed + d
               /\ rm_pc' = "done"
          ELSE /\ UNCHANGED rm_result
               /\ rm_pc' = "sleep"
  /\ UNCHANGED <<ft_pc, ft_max_wait, ft_elapsed, ft_successes, ft_result>>
  /\ UNCHANGED ft_history
  /\ UNCHANGED <<orchVars, event, healthVars, probeVars, validatorVars,
                 testVars, endpointVars, verifyVars,
                 albVars>>

\* simulate_failure_and_measure_rto, line 118
rm_sleep ==
  /\ rm_pc = "sleep"
  /\ rm_elapsed' = rm_elapsed + check_interval
  /\ rm_pc' = "test"
  /\ UNCHANGED <<ft_pc, ft_max_wait, ft_elapsed, ft_successes, ft_result,
                 failover_detected, rm_successes, rm_result>>
  /\ UNCHANGED ft_history
  /\ UNCHANGED <<orchVars, event, healthVars, probeVars, validatorVars,
                 testVars, endpointVars, verifyVars,
                 albVars>>

\* the RTO target in seconds, rto-calculator.py line 146 and
\* chaos-engineering.py line 293
rto_target == 60

\* rto-calculator.py, line 147: 'status' of the report
rto_status(t) == IF t <= rto_target THEN "PASS" ELSE "FAIL"

\* chaos-engineering.py, line 294: the status the chaos harness prints
chaos_status(t) == IF t < rto_target THEN "PASS" ELSE "FAIL"

\* Each run is of one of the three programs: the validator's lag probe, the
\* chaos script or the RTO script.
ProbeAlone == ft_pc = "idle" /\ rm_pc = "idle"
FailoverTimeAlone == rm_pc = "idle" /\ \A p \in Probes : probe_pc[p] = "idle"
MonitorAlone == ft_pc = "idle" /\ \A p \in Probes : probe_pc[p] = "idle"

NextPolling ==
  \/ ProbeAlone /\ replicate
  \/ ProbeAlone /\ \E p \in FirstProbe : probe_put(p)
  \/ ProbeAlone /\ \E p \in FirstProbe : probe_sleep(p)
  \/ ProbeAlone /\ \E p \in FirstProbe : probe_poll(p)
  \/ ProbeAlone /\ \E p \in FirstProbe : probe_cleanup(p)
  \/ ProbeAlone /\ \E p \in FirstProbe : probe_next_attempt(p)
  \/ ProbeAlone /\ \E p \in FirstProbe : probe_timeout(p)
  \/ ProbeAlone /\ \E p \in FirstProbe : probe_error(p)
  \/ FailoverTimeAlone /\ ft_start
  \/ FailoverTimeAlone /\ ft_test
  \/ FailoverTimeAlone /\ ft_request
  \/ FailoverTimeAlone /\ ft_sleep
  \/ MonitorAlone /\ rm_start
  \/ MonitorAlone /\ rm_test
  \/ MonitorAlone /\ rm_check
  \/ MonitorAlone /\ rm_sleep

\* The program that runs keeps running: its next step is taken.
SpecPolling == Init /\ [][NextPolling]_vars /\ WF_vars(NextPolling)

(* ============== chaos: simulate_alb_failure, restore_alb =============== *)

\* the targets of the load balancer's target groups, in the order
\* describe_target_groups and describe_target_health list them
AllTargets ==
  << [target_group |-> "tg1", target_id |-> "i-a"],
     [target_group |-> "tg1", target_id |-> "i-b"],
     [target_group |-> "tg2", target_id |-> "i-c"] >>

TargetSet == {AllTargets[k] : k \in 1..Len(AllTargets)}

WasRegistered(t) == t \in alb_before

\* the targets the loops of lines 36-58 visit
TargetsToDeregister == SelectSeq(AllTargets, WasRegistered)

\* simulate_alb_failure, lines 24-34: the load balancer and its target
\* groups are described; an error of either call returns [] (lines 62-64).
simulate_alb_failure ==
  /\ alb_pc = "idle"
  /\ \E before \in (SUBSET TargetSet) \ {{}} :
       /\ alb_before' = before
       /\ alb_registered' = before
  /\ deregistered_targets' = <<>>
  /\ \E raised \in BOOLEAN :
       IF raised
       THEN /\ alb_pc' = "returned"
            /\ alb_k' = 0
       ELSE /\ alb_pc' = "deregister"
            /\ alb_k' = 1
  /\ deregistered' = <<>>
  /\ UNCHANGED <<orchVars, event, healthVars, probeVars, validatorVars,
                 testVars, endpointVars, monitorVars, verifyVars>>

\* simulate_alb_failure, lines 36-58: the next target is deregistered and
\* appended to the list; an error of describe_target_health or of
\* deregister_targets leaves the loops and returns [] (lines 62-64).
simulate_alb_failure_deregister ==
  /\ alb_pc = "deregister"
  /\ alb_k <= Len(TargetsToDeregister)
  /\ \E raised \in BOOLEAN :
       IF raised
       THEN /\ deregistered' = <<>>
            /\ alb_pc' = "returned"
            /\ UNCHANGED <<alb_registered, alb_k, deregistered_targets>>
       ELSE /\ alb_registered' =
                 alb_registered \ {TargetsToDeregister[alb_k]}
            /\ deregistered_targets' =
                 Append(deregistered_targets, TargetsToDeregister[alb_k])
            /\ alb_k' = alb_k + 1
            /\ UNCHANGED <<alb_pc, deregistered>>
  /\ UNCHANGED alb_before
  /\ UNCHANGED <<orchVars, event, healthVars, probeVars, validatorVars,
                 testVars, endpointVars, monitorVars, verifyVars>>

\* simulate_alb_failure, line 60: the list is returned
simulate_alb_failure_return ==
  /\ alb_pc = "deregister"
  /\ alb_k > Len(TargetsToDeregister)
  /\ deregistered' = deregistered_targets
  /\ alb_pc' = "returned"
  /\ UNCHANGED <<alb_before, alb_registered, alb_k, deregistered_targets>>
  /\ UNCHANGED <<orchVars, event, healthVars, probeVars, validatorVars,
                 testVars, endpointVars, monitorVars, verifyVars>>

\* main, line 277: restore_alb is called with what simulate_alb_failure
\* returned
restore_alb ==
  /\ alb_pc = "returned"
  /\ alb_k' = 1
  /\ alb_pc' = "restore"
  /\ UNCHANGED <<alb_before, alb_registered, deregistered_targets,
                 deregistered>>
  /\ UNCHANGED <<orchVars, event, healthVars, probeVars, validatorVars,
                 testVars, endpointVars, monitorVars, verifyVars>>

\* restore_alb, lines 71-79: the next target of the list is registered; an
\* error of register_targets ends the loop.
restore_alb_register ==
  /\ alb_pc = "restore"
  /\ alb_k <= Len(deregistered)
  /\ \E raised \in BOOLEAN :
       IF raised
       THEN /\ alb_pc' = "restored"
            /\ UNCHANGED <<alb_registered, alb_k>>
       ELSE /\ alb_registered' = alb_registered \cup {deregistered[alb_k]}
            /\ alb_k' = alb_k + 1
            /\ UNCHANGED alb_pc
  /\ UNCHANGED <<alb_before, deregistered_targets, deregistered>>
  /\ UNCHANGED <<orchVars, event, healthVars, probeVars, validatorVars,
                 testVars, endpointVars, monitorVars, verifyVars>>

\* restore_alb, the end of the loop of line 71
restore_alb_done ==
  /\ alb_pc = "restore"
  /\ alb_k > Len(deregistered)
  /\ alb_pc' = "restored"
  /\ UNCHANGED <<alb_before, alb_registered, alb_k, deregistered_targets,
                 deregistered>>
  /\ UNCHANGED <<orchVars, event, healthVars, probeVars, validatorVars,
                 testVars, endpointVars, monitorVars, verifyVars>>

NextChaos ==
  \/ simulate_alb_failure
  \/ simulate_alb_failure_deregister
  \/ simulate_alb_failure_return
  \/ restore_alb
  \/ restore_alb_register
  \/ restore_alb_done

SpecChaos == Init /\ [][NextChaos]_vars

(* ================= verify_region_health as a function ================== *)

\* verify_region_health is called for a region; Route 53 will answer
verify_call ==
  /\ vr_pc = "idle"
  /\ vr_region' \in Regions
  /\ vr_response' \in Route53Responses
  /\ vr_pc' = "called"
  /\ UNCHANGED vr_result
  /\ UNCHANGED <<orchVars, event, healthVars, probeVars, validatorVars,
                 testVars, endpointVars, monitorVars,
                 albVars>>

\* verify_region_health, lines 117-138, returns
verify_return ==
  /\ vr_pc = "called"
  /\ vr_result' = verify_region_health(vr_region, vr_response)
  /\ vr_pc' = "returned"
  /\ UNCHANGED <<vr_region, vr_response>>
  /\ UNCHANGED <<orchVars, event, healthVars, probeVars, validatorVars,
                 testVars, endpointVars, monitorVars,
                 albVars>>

NextVerify ==
  \/ verify_call
  \/ verify_return

SpecVerify == Init /\ [][NextVerify]_vars

(* ============ traffic router and the /health endpoint probe ============ *)

\* event['body'] as the front end delivers it: no 'body' key, None, the
\* empty string (a request without a body behind a load balancer), a JSON
\* object, a string that is not JSON
Bodies == {"absent", "null", "empty", "json", "not_json"}

\* the events the router is given; id: the item id is given where the
\* handler of the method looks for it
Requests ==
  [path : {"/health", "/items"},
   httpMethod : {"GET", "POST", "PUT", "DELETE", "PATCH"},
   body : Bodies, id : BOOLEAN]

\* GET https://endpoint/health as it reaches the router
HealthRequests ==
  {q \in Requests : q.path = "/health" /\ q.httpMethod = "GET" /\ ~q.id}

\* json.loads(event['body']) raises, line 22
BodyRaises(q) == q.body \in {"empty", "not_json"}

\* the front end hands a request to the router Lambda
router_invoke ==
  /\ r_pc = "idle"
  /\ m_pc # "waiting"
  /\ r_request' \in Requests
  /\ r_pc' = "parse"
  /\ r_status' = 0 /\ r_body' = {} /\ r_store_ops' = {}
  /\ UNCHANGED <<m_pc, m_result>>
  /\ UNCHANGED <<orchVars, event, healthVars, probeVars, validatorVars,
                 testVars, monitorVars, verifyVars,
                 albVars>>

\* handler, lines 19-31: parse the body, then answer /health
router_parse ==
  /\ r_pc = "parse"
  /\ r_pc' = IF BodyRaises(r_request) THEN "except"
             ELSE IF r_request.path = "/health" THEN "health"
             ELSE "route"
  /\ UNCHANGED <<r_request, r_status, r_body, r_store_ops, m_pc, m_result>>
  /\ UNCHANGED <<orchVars, event, healthVars, probeVars, validatorVars,
                 testVars, monitorVars, verifyVars,
                 albVars>>

\* health_check_response, lines 75-84, returned at line 31
health_check_response ==
  /\ r_pc = "health"
  /\ r_status' = 200
  /\ r_body' = {"status", "region", "timestamp"}
  /\ r_pc' = "done"
  /\ UNCHANGED <<r_request, r_store_ops, m_pc, m_result>>
  /\ UNCHANGED <<orchVars, event, healthVars, probeVars, validatorVars,
                 testVars, monitorVars, verifyVars,
                 albVars>>

\* the outcomes of a request handler: <<DynamoDB calls, statusCode>>, with
\* statusCode 0 when it raises
\* handle_get_request, lines 86-125
handle_get_request(q) ==
  IF q.id THEN {<<{"get_item"}, 200>>, <<{"get_item"}, 404>>, <<{"get_item"}, 0>>}
  ELSE {<<{"scan"}, 200>>, <<{"scan"}, 0>>}
\* handle_post_request, lines 127-156: body.get raises on a body of None
handle_post_request(q) ==
  IF q.body # "json" THEN {<<{}, 0>>}
  ELSE {<<{"put_item"}, 201>>, <<{"put_item"}, 0>>}
\* handle_put_request, lines 158-198
handle_put_request(q) ==
  IF q.body # "json" THEN {<<{}, 0>>}
  ELSE IF ~q.id THEN {<<{}, 400>>}
  ELSE {<<{"update_item"}, 200>>, <<{"update_item"}, 0>>}
\* handle_delete_request, lines 200-226
handle_delete_request(q) ==
  IF q.id THEN {<<{"delete_item"}, 200>>, <<{"delete_item"}, 0>>}
  ELSE IF q.body # "json" THEN {<<{}, 0>>}
  ELSE {<<{}, 400>>}

\* handler, lines 33-46: route on the method
router_route ==
  /\ r_pc = "route"
  /\ \E o \in CASE r_request.httpMethod = "GET" -> handle_get_request(r_request)
               [] r_request.httpMethod = "POST" -> handle_post_request(r_request)
               [] r_request.httpMethod = "PUT" -> handle_put_request(r_request)
               [] r_request.httpMethod = "DELETE" -> handle_delete_request(r_request)
               [] OTHER -> {<<{}, 405>>} :
       /\ r_store_ops' = o[1]
       /\ r_status' = o[2]
       /\ r_pc' = IF o[2] = 0 THEN "except" ELSE "metrics"
  /\ UNCHANGED <<r_request, r_body, m_pc, m_result>>
  /\ UNCHANGED <<orchVars, event, healthVars, probeVars, validatorVars,
                 testVars, monitorVars, verifyVars,
                 albVars>>

\* handler, lines 48-58: headers, log_request_metrics (lines 228-248, its
\* errors caught), return
router_return ==
  /\ r_pc = "metrics"
  /\ r_body' = IF r_status \in {200, 201} THEN {"data", "region"} ELSE {"error"}
  /\ r_pc' = "done"
  /\ UNCHANGED <<r_request, r_status, r_store_ops, m_pc, m_result>>
  /\ UNCHANGED <<orchVars, event, healthVars, probeVars, validatorVars,
                 testVars, monitorVars, verifyVars,
                 albVars>>

\* handler, lines 60-73: every exception is answered with 500
router_except ==
  /\ r_pc = "except"
  /\ r_status' = 500
  /\ r_body' = {"error", "message", "region"}
  /\ r_pc' = "done"
  /\ UNCHANGED <<r_request, r_store_ops, m_pc, m_result>>
  /\ UNCHANGED <<orchVars, event, healthVars, probeVars, validatorVars,
                 testVars, monitorVars, verifyVars,
                 albVars>>

\* the response of a request that no probe waits for is delivered
router_done ==
  /\ r_pc = "done"
  /\ m_pc # "waiting"
  /\ r_pc' = "idle"
  /\ UNCHANGED <<r_request, r_status, r_body, r_store_ops, m_pc, m_result>>
  /\ UNCHANGED <<orchVars, event, healthVars, probeVars, validatorVars,
                 testVars, monitorVars, verifyVars,
                 albVars>>

\* seconds between start and end of measure_endpoint_response_time
ElapsedSeconds == {0, 1, 4}

\* status codes the front end answers by itself
GatewayErrors == {502, 503, 504}

\* measure_endpoint_response_time, lines 26-28: requests.get of /health
measure_send ==
  /\ m_pc \in {"idle", "done"}
  /\ r_pc = "idle"
  /\ m_pc' = "waiting"
  /\ m_result' = NoMeasurement
  /\ r_request' \in HealthRequests
  /\ r_pc' = "parse"
  /\ r_status' = 0 /\ r_body' = {} /\ r_store_ops' = {}
  /\ UNCHANGED <<orchVars, event, healthVars, probeVars, validatorVars,
                 testVars, monitorVars, verifyVars,
                 albVars>>

\* measure_endpoint_response_time, lines 29-42: the result for a response
measure_result(code, elapsed) ==
  IF code = 200
  THEN [success |-> TRUE, response_time |-> elapsed * 1000,
        status_code |-> code, error |-> "none"]
  ELSE [success |-> FALSE, response_time |-> -1,
        status_code |-> code, error |-> "none"]

\* measure_endpoint_response_time, lines 28-42: the response arrives, from
\* the router or from the front end itself
measure_receive ==
  /\ m_pc = "waiting"
  /\ \E elapsed \in ElapsedSeconds :
       \/ /\ r_pc = "done"
          /\ m_result' = measure_result(r_status, elapsed)
          /\ r_pc' = "idle"
       \/ /\ \E code \in GatewayErrors :
               m_result' = measure_result(code, elapsed)
          /\ UNCHANGED r_pc
  /\ m_pc' = "done"
  /\ UNCHANGED <<r_request, r_status, r_body, r_store_ops>>
  /\ UNCHANGED <<orchVars, event, healthVars, probeVars, validatorVars,
                 testVars, monitorVars, verifyVars,
                 albVars>>

\* measure_endpoint_response_time, lines 43-48: requests.get raises (timeout,
\* connection error)
measure_except ==
  /\ m_pc = "waiting"
  /\ m_result' = [success |-> FALSE, response_time |-> -1,
                  status_code |-> 0, error |-> "exception"]
  /\ m_pc' = "done"
  /\ UNCHANGED <<r_pc, r_request, r_status, r_body, r_store_ops>>
  /\ UNCHANGED <<orchVars, event, healthVars, probeVars, validatorVars,
                 testVars, monitorVars, verifyVars,
                 albVars>>

NextEndpoint ==
  \/ router_invoke
  \/ router_parse
  \/ health_check_response
  \/ router_route
  \/ router_return
  \/ router_except
  \/ router_done
  \/ measure_send
  \/ measure_receive
  \/ measure_except

SpecEndpoint == Init /\ [][NextEndpoint]_vars

(* ======================= failover orchestrator ========================= *)

\* the invocations whose failover of source to target is PENDING
PendingEvents(source, target) ==
  {i \in Invocations : /\ failed_region[i] = source
                       /\ target_region[i] = target
                       /\ outcome[i] = "PENDING"}

\* C1: for each ordered region pair there is at most one failover with
\* outcome PENDING, however the alarm invocations interleave.
C1_AtMostOnePending ==
  \A source \in Regions, target \in Regions :
    Cardinality(PendingEvents(source, target)) <= 1

\* C2: an execution of initiate_failover whose verify_region_health returned
\* false never calls update_health_checks.
C2_NoRedirectOnUnhealthyTarget ==
  \A i \in Invocations :
    CallsWith(i, "verify", "false") # {} => CallsOf(i, "redirect") = {}

C2_Witness ==
  \E i \in Invocations :
    /\ pc[i] = "done"
    /\ CallsWith(i, "verify", "false") # {}
    /\ outcome[i] = "FAILED"

\* C3: of two invocations for the same pair that run at the same time, only
\* one starts a failover: the other verifies nothing, redirects nothing and
\* notifies nothing.
C3_OverlappingAlarmsExecuteOnce ==
  \A i \in Invocations, j \in Invocations :
    ( /\ i # j
      /\ failed_region[i] # "none"
      /\ failed_region[i] = failed_region[j]
      /\ target_region[i] = target_region[j]
      /\ pc[i] # "done" /\ pc[j] # "done" )
    => (calls[i] = <<>> \/ calls[j] = <<>>)

\* C5: a failover that was started has outcome SUCCEEDED or FAILED when its
\* invocation is over: after a normal return, after an exception, and after
\* the deadline ended the invocation once the redirect had been invoked.
C5_NoFailoverLeftPending ==
  \A i \in Invocations :
    ( /\ pc[i] = "done"
      /\ outcome[i] # "NONE"
      /\ (Returned(i) \/ CallsOf(i, "redirect") # {}) )
    => outcome[i] \in {"SUCCEEDED", "FAILED"}

\* C6: when an exception ended the failover, its outcome is FAILED, a failure
\* notification was attempted, and the exception leaves the handler: the
\* invocation does not end with a normal response.
C6_ExceptionFailsTheInvocation ==
  \A i \in Invocations :
    ( /\ pc[i] = "done"
      /\ response[i] # "timed_out"
      /\ outcome[i] # "NONE"
      /\ error[i] # "none" )
    => /\ outcome[i] = "FAILED"
       /\ Notifications(i, "FAILOVER FAILED") # {}
       /\ response[i] \notin {"200", "500"}

\* C7 as stated: after a verification that returned false the outcome is
\* FAILED, exactly one failure notification was sent, no metric and no
\* success notification was emitted, and the handler did not raise.
C7_Original ==
  \A i \in Invocations :
    (Returned(i) /\ CallsWith(i, "verify", "false") # {})
    => /\ outcome[i] = "FAILED"
       /\ Cardinality(NotificationsSent(i, "FAILOVER FAILED")) = 1
       /\ CallsOf(i, "metric") = {}
       /\ Notifications(i, "FAILOVER") = {}

\* C7 (amended): after a verification that returned false the outcome is
\* FAILED, send_notification was called exactly once, for the failure (it
\* publishes nothing when SNS_TOPIC is unset, and a publish error is
\* swallowed), no redirect, no metric and no success notification was
\* attempted, and the handler returned a statusCode 500 response.
C7_TargetUnhealthyAbort ==
  \A i \in Invocations :
    (Returned(i) /\ CallsWith(i, "verify", "false") # {})
    => /\ outcome[i] = "FAILED"
       /\ Cardinality(Notifications(i, "FAILOVER FAILED")) = 1
       /\ Cardinality(CallsOf(i, "notify")) = 1
       /\ (NotificationsSent(i, "FAILOVER FAILED") # {} => SNS_TOPIC)
       /\ CallsOf(i, "redirect") = {}
       /\ CallsOf(i, "metric") = {}
       /\ response[i] = "500"

C7_Witness ==
  \E i \in Invocations :
    /\ Returned(i)
    /\ CallsWith(i, "verify", "false") # {}
    /\ NotificationsSent(i, "FAILOVER FAILED") # {}

\* every call of op by invocation i comes after its redirect
AfterRedirect(i, ks) ==
  \A k \in ks : \E r \in CallsOf(i, "redirect") : r < k

\* C8 as stated: after a verification that returned true and a redirect that
\* succeeded, redirect was invoked once, the outcome is SUCCEEDED with
\* rto = completion - start >= 0, and exactly one RTO metric and one success
\* notification were emitted, after the redirect.
C8_Original ==
  \A i \in Invocations :
    ( /\ Returned(i)
      /\ CallsWith(i, "verify", "true") # {}
      /\ CallsWith(i, "redirect", "ok") # {} )
    => /\ Cardinality(CallsOf(i, "redirect")) = 1
       /\ outcome[i] = "SUCCEEDED"
       /\ rto[i] = completed_at[i] - start_time[i]
       /\ rto[i] >= 0
       /\ Cardinality(CallsWith(i, "metric", "recorded")) = 1
       /\ Cardinality(NotificationsSent(i, "FAILOVER")) = 1
       /\ AfterRedirect(i, CallsOf(i, "metric") \cup Notifications(i, "FAILOVER"))

\* C8 (amended): after a verification that returned true and a redirect that
\* succeeded, redirect was invoked once, the outcome is SUCCEEDED with
\* rto = completion - start >= 0, and log_failover_metrics and the success
\* send_notification were each called exactly once, after the redirect; the
\* metric or the notification is emitted only if its sink accepts it (and
\* SNS_TOPIC is set), never more than once.
C8_SuccessfulFailover ==
  \A i \in Invocations :
    ( /\ Returned(i)
      /\ CallsWith(i, "verify", "true") # {}
      /\ CallsWith(i, "redirect", "ok") # {} )
    => /\ Cardinality(CallsOf(i, "redirect")) = 1
       /\ outcome[i] = "SUCCEEDED"
       /\ response[i] = "200"
       /\ rto[i] = completed_at[i] - start_time[i]
       /\ rto[i] >= 0
       /\ Cardinality(CallsOf(i, "metric")) = 1
       /\ Cardinality(Notifications(i, "FAILOVER")) = 1
       /\ (NotificationsSent(i, "FAILOVER") # {} => SNS_TOPIC)
       /\ Notifications(i, "FAILOVER FAILED") = {}
       /\ AfterRedirect(i, CallsOf(i, "metric") \cup Notifications(i, "FAILOVER"))

C8_Witness ==
  \E i \in Invocations :
    /\ Returned(i)
    /\ CallsWith(i, "redirect", "ok") # {}
    /\ rto[i] > 0
    /\ CallsWith(i, "metric", "recorded") # {}
    /\ NotificationsSent(i, "FAILOVER") # {}

\* C9: the redirect is attempted at most once in a failover, and a failover
\* whose attempt failed ends FAILED with a failure notification, without
\* success notification and without RTO metric.
C9_FailedRedirectFailsTheFailover ==
  \A i \in Invocations :
    /\ Cardinality(CallsOf(i, "redirect")) <= 1
    /\ (Returned(i) /\ CallsWith(i, "redirect", "error") # {})
       => /\ outcome[i] = "FAILED"
          /\ Notifications(i, "FAILOVER FAILED") # {}
          /\ Notifications(i, "FAILOVER") = {}
          /\ CallsOf(i, "metric") = {}

(* ========================== health checker ============================= *)

\* C4: the status of the region goes from healthy to failed only after at
\* least 3 consecutive unsuccessful samples and from failed to healthy only
\* after at least 3 consecutive successful samples, and a successful sample
\* sets consecutive_failure_count to 0.
C4_FlapResistance ==
  [][ /\ (overall_status = "healthy" /\ overall_status' = "unhealthy")
           => consecutive_failure_count' >= 3
      /\ (overall_status = "unhealthy" /\ overall_status' = "healthy")
           => consecutive_success_count' >= 3
      /\ (hc_pc = "idle" /\ dynamodb_health'.status = "healthy")
           => consecutive_failure_count' = 0 ]_vars

(* ===================== replication-lag probe =========================== *)

\* C10: a result of check_replication_lag with status success has a
\* lag_ms >= 0 and is returned only by a probe whose get_item returned the
\* marker from the secondary table (the lag being the time from the write to
\* that read); a result with status timeout or error has no lag; a probe
\* that never read the marker reports no lag.
C10_LagOnlyWhenObserved ==
  \A p \in Probes :
    /\ result[p].status = "success"
         => /\ observed_ts[p] >= write_time[p]
            /\ write_time[p] >= 0
            /\ result[p].lag_ms = (observed_ts[p] - write_time[p]) * IntervalMs
            /\ result[p].lag_ms >= 0
    /\ result[p].status \in {"timeout", "error"} => result[p].lag_ms = -1
    /\ observed_ts[p] = -1 => (lag[p] = -1 /\ result[p].lag_ms = -1)
    /\ probe_pc[p] = "done" => result[p].status \in {"success", "timeout", "error"}

C10_Witness ==
  \E p \in Probes :
    /\ probe_pc[p] = "done"
    /\ result[p].status = "timeout"
    /\ observed_ts[p] = -1
    /\ attempt[p] = max_attempts

\* C11: a probe that wrote its marker and finished (success or timeout,
\* also after an error of a read or of a delete) has issued a delete of the
\* marker to the primary and to the secondary table.
C11_MarkerDeletedFromBothRegions ==
  \A p \in Probes :
    (probe_pc[p] = "done" /\ result[p].status \in {"success", "timeout"})
    => deletes_issued[p] = {"primary", "secondary"}

C11_Witness ==
  \E p \in Probes :
    /\ probe_pc[p] = "done"
    /\ result[p].status = "success"
    /\ attempt[p] > 0
    /\ deletes_issued[p] = {"primary", "secondary"}
    /\ test_id[p] \notin table_primary \cup table_secondary

\* C12: a probe whose marker became visible in the secondary table d after
\* the write reports a lag of at most d plus one polling interval: the lag
\* is not inflated by a fixed wait before the first poll.
C12_LagWithinOneInterval ==
  \A p \in Probes :
    (result[p].status = "success" /\ visible_ts[p] >= write_time[p])
    => result[p].lag_ms <= (visible_ts[p] - write_time[p]) * IntervalMs
                             + IntervalMs

\* C13: two probes never use the same marker key.
C13_DistinctMarkerKeys ==
  \A p \in Probes, q \in Probes :
    (p # q /\ test_id[p] # -1 /\ test_id[q] # -1) => test_id[p] # test_id[q]

(* ==================== data-consistency validator ======================= *)

\* C14: once the validator has determined its status, the status is
\* critical, degraded or healthy; it is critical whenever a conflict is
\* DIVERGED; without one it is degraded when the measured lag is over the
\* threshold and healthy when the probe succeeded under the threshold; and
\* it is healthy only after a successful probe with no DIVERGED conflict.
C14_OverallStatus ==
  (v_pc \in {"alert", "return"} \/ v_response = "200") =>
    /\ status \in {"critical", "degraded", "healthy"}
    /\ Diverged(conflicts) => status = "critical"
    /\ (~Diverged(conflicts) /\ replication_lag.status = "success"
          /\ replication_lag.lag_ms > LagThresholdMs) => status = "degraded"
    /\ (~Diverged(conflicts) /\ replication_lag.status = "success"
          /\ replication_lag.lag_ms < LagThresholdMs) => status = "healthy"
    /\ status = "healthy" =>
          /\ ~Diverged(conflicts)
          /\ replication_lag.status = "success"
          /\ replication_lag.lag_ms <= LagThresholdMs

\* a diverged conflict makes the status critical although the lag is low
C14_Witness ==
  /\ v_pc = "return"
  /\ status = "critical"
  /\ replication_lag.status = "success"
  /\ replication_lag.lag_ms < LagThresholdMs

(* ============== data-integrity tests, test_concurrent_writes =========== *)

\* C15: the comparison reports convergence (converged, status PASS) only when
\* both regions returned the item and the two items are identical; a key
\* that a region did not return is never reported as converged.
C15_ConvergedOnlyWhenBothPresent ==
  (cw_pc \in {"cleanup", "done"} /\ converged) =>
    /\ primary_result # NoItem
    /\ secondary_result # NoItem
    /\ primary_result = secondary_result

\* C16: the verdict of the comparison on (primary, secondary) is the verdict it
\* gives on (secondary, primary).
C16_SymmetricCheck ==
  cw_pc \in {"cleanup", "done"} =>
    /\ converged = Converged(secondary_result, primary_result)
    /\ cw_pc = "done" => (cw_status = "PASS") = converged

\* the test has judged a key present in one region only
C16_Witness ==
  /\ cw_pc = "done"
  /\ primary_result # NoItem
  /\ secondary_result = NoItem
  /\ cw_status = "FAIL"

(* ======================= failover orchestrator ========================= *)

\* C17: an invocation calls initiate_failover only when it was given an alarm
\* whose NewStateValue is ALARM and which names the failed region, by its
\* name or by its Region; an OK alarm, a health-check event and any other
\* event never start a failover.
C17_FailoverOnlyOnAlarm ==
  \A i \in Invocations :
    (outcome[i] # "NONE" \/ pc[i] = "initiate_failover"
       \/ failed_region[i] # "none") =>
      /\ event[i].kind = "alarm"
      /\ event[i].NewStateValue = "ALARM"
      /\ failed_region[i] = PRIMARY_REGION =>
            \/ NameHasMumbai(event[i].AlarmName)
            \/ event[i].Region = PRIMARY_REGION
      /\ failed_region[i] = SECONDARY_REGION =>
            \/ NameHasSingapore(event[i].AlarmName)
            \/ event[i].Region = SECONDARY_REGION

\* an ALARM alarm delivered through SNS has started a failover that succeeded
C17_Witness ==
  \E i \in Invocations :
    /\ event[i].kind = "alarm" /\ event[i].form = "sns"
    /\ event[i].NewStateValue = "ALARM"
    /\ outcome[i] = "SUCCEEDED"
    /\ Returned(i)

\* C18: an invocation given an OK alarm never verifies a target and never
\* redirects, in either direction, and starts no failover; the one call it
\* makes is the recovery notification.
C18_NoAutomaticFailback ==
  \A i \in Invocations :
    (event[i].kind = "alarm" /\ event[i].NewStateValue = "OK") =>
      /\ CallsOf(i, "verify") = {}
      /\ CallsOf(i, "redirect") = {}
      /\ outcome[i] = "NONE"
      /\ failed_region[i] = "none" /\ target_region[i] = "none"
      /\ Len(calls[i]) <= 1
      /\ \A k \in 1..Len(calls[i]) :
            calls[i][k].op = "notify" /\ calls[i][k].arg = "Region Recovered"
      /\ Returned(i) => Len(calls[i]) = 1

\* an OK alarm naming the primary region was answered with the recovery
\* notification alone
C18_Witness ==
  \E i \in Invocations :
    /\ event[i].kind = "alarm" /\ event[i].NewStateValue = "OK"
    /\ NameHasMumbai(event[i].AlarmName)
    /\ Returned(i)
    /\ NotificationsSent(i, "Region Recovered") # {}

\* the calls of the metrics sink and of the notification sink that failed
SinkFailures(i) ==
  CallsWith(i, "metric", "error") \cup CallsWith(i, "notify", "error")

\* C19: after a failure of the metrics sink or of the notification sink the
\* invocation handles no exception it did not handle before; a failover that
\* reached the redirect stays SUCCEEDED and the handler answers 200; a
\* failover aborted for an unhealthy target stays FAILED for that reason; an
\* invocation without a failover answers 200.
C19_SinkFailuresSwallowed ==
  \A i \in Invocations :
    SinkFailures(i) # {} =>
      /\ CallsOf(i, "redirect") # {} =>
            /\ outcome[i] = "SUCCEEDED"
            /\ error[i] = "none"
            /\ Returned(i) => response[i] = "200"
      /\ (CallsOf(i, "redirect") = {} /\ outcome[i] # "NONE") =>
            /\ outcome[i] = "FAILED"
            /\ error[i] = "target_not_healthy"
            /\ CallsWith(i, "verify", "false") # {}
      /\ outcome[i] = "NONE" =>
            /\ error[i] = "none"
            /\ Returned(i) => response[i] = "200"

\* the RTO metric and the success notification both failed and the failover
\* is SUCCEEDED
C19_Witness ==
  \E i \in Invocations :
    /\ Returned(i)
    /\ CallsWith(i, "redirect", "ok") # {}
    /\ CallsWith(i, "metric", "error") # {}
    /\ \E k \in CallsWith(i, "notify", "error") : calls[i][k].arg = "FAILOVER"
    /\ outcome[i] = "SUCCEEDED"
    /\ response[i] = "200"

\* C20: an invocation given a malformed event, once it has ended by itself,
\* has not returned a response to the runtime and has attempted a
\* notification.
C20_MalformedEventFailsOutright ==
  \A i \in Invocations :
    (pc[i] = "done" /\ error[i] = "JSONDecodeError"
       /\ response[i] # "timed_out") =>
      /\ response[i] \notin {"200", "500"}
      /\ CallsOf(i, "notify") # {}

(* ============ traffic router and the /health endpoint probe ============ *)

\* C21: a probe of /health is successful exactly when the response status is
\* 200, and records a response time exactly then; and the router answers
\* every request of path /health with 200 and a body of status, region and
\* timestamp, with no call of the store.
C21_HealthEndpointContract ==
  /\ m_pc = "done" =>
        /\ m_result.success <=> m_result.status_code = 200
        /\ m_result.success <=> m_result.response_time >= 0
  /\ (r_pc = "done" /\ r_request.path = "/health") =>
        /\ r_status = 200
        /\ r_body = {"status", "region", "timestamp"}
        /\ r_store_ops = {}

(* ========================== health checker ============================= *)

\* C22: the result of a check has a latency exactly when it is healthy: a
\* healthy result has latency_ms and no error, an unhealthy result has an
\* error and no latency_ms.
C22_LatencyIffHealthy ==
  dynamodb_health.status # "none" =>
    /\ dynamodb_health.status = "healthy" <=> dynamodb_health.latency_ms >= 0
    /\ dynamodb_health.status = "healthy" <=> dynamodb_health.error = "none"
    /\ dynamodb_health.status \in {"healthy", "unhealthy"}

\* a run whose read raised has reported an unhealthy check
C22_Witness ==
  /\ hc_pc = "return"
  /\ dynamodb_health.status = "unhealthy"
  /\ dynamodb_health.error = "ReadTimeout"
  /\ overall_status = "unhealthy"

\* C27: the status never goes from healthy to failed or from failed to
\* healthy in one step, and the count of consecutive failures is 0 after a
\* successful sample.
C27_DocumentedTransitions ==
  [][/\ overall_status = "healthy" => overall_status' # "unhealthy"
     /\ overall_status = "unhealthy" => overall_status' # "healthy"
     /\ (hc_pc = "idle" /\ dynamodb_health'.status = "healthy")
          => consecutive_failure_count' = 0]_vars

\* C28: a run reports a healthy status only when it has checked both the
\* health endpoint of the region and the replicated store.
C28_EndpointAndStoreChecked ==
  overall_status = "healthy" => {"endpoint", "dynamodb"} \subseteq HealthChecks

(* ======================= failover orchestrator ========================= *)

\* C23: an outcome that is SUCCEEDED or FAILED is not changed by any step,
\* of the same invocation or of another one.
C23_TerminalOutcomeImmutable ==
  [][\A i \in Invocations :
       outcome[i] \in {"SUCCEEDED", "FAILED"} => outcome'[i] = outcome[i]]_vars

\* one invocation has returned after a succeeded failover whose metric and
\* notification both failed, the other after a failed one
C23_Witness ==
  \E i \in Invocations, j \in Invocations :
    /\ Returned(i) /\ outcome[i] = "SUCCEEDED"
    /\ CallsWith(i, "metric", "error") # {}
    /\ CallsWith(i, "notify", "error") # {}
    /\ Returned(j) /\ outcome[j] = "FAILED"

\* the ops of the calls of invocation i, in order
Ops(i) == [k \in 1..Len(calls[i]) |-> calls[i][k].op]

\* s is a prefix of t
IsPrefix(s, t) == Len(s) <= Len(t) /\ \A k \in 1..Len(s) : s[k] = t[k]

\* C26: the calls of a failover are, in this order, the verification, the
\* redirect, the RTO metric and the success notification, or the
\* verification and the failure notification; the redirect follows a
\* verification that returned true, the RTO is computed after the redirect,
\* SUCCEEDED is reached only after the redirect, FAILED only without it, and
\* a succeeded failover that has returned has made all four calls.
C26_StepOrder ==
  \A i \in Invocations :
    outcome[i] # "NONE" =>
      /\ \/ IsPrefix(Ops(i), <<"verify", "redirect", "metric", "notify">>)
         \/ IsPrefix(Ops(i), <<"verify", "notify">>)
      /\ CallsOf(i, "redirect") # {} => calls[i][1].res = "true"
      /\ rto[i] # -1 => CallsOf(i, "redirect") # {}
      /\ CallsOf(i, "metric") # {} => rto[i] # -1
      /\ outcome[i] = "SUCCEEDED" => CallsOf(i, "redirect") # {}
      /\ outcome[i] = "FAILED" =>
            CallsOf(i, "redirect") = {} /\ calls[i][1].res = "false"
      /\ Notifications(i, "FAILOVER") # {} => Len(calls[i]) = 4
      /\ Notifications(i, "FAILOVER FAILED") # {} => Len(calls[i]) = 2
      /\ (Returned(i) /\ outcome[i] = "SUCCEEDED") =>
            Ops(i) = <<"verify", "redirect", "metric", "notify">>

\* a failover has gone through all its steps
C26_Witness ==
  \E i \in Invocations :
    /\ Returned(i)
    /\ outcome[i] = "SUCCEEDED"
    /\ Ops(i) = <<"verify", "redirect", "metric", "notify">>
    /\ calls[i][4].arg = "FAILOVER" /\ calls[i][4].res = "sent"

(* ================= verify_region_health as a function ================== *)

\* the k-th health check of the response is one of the region
MatchesAt(k) == vr_response.HealthChecks[k].fqdn = vr_region
\* ... and its status query gives an observation Success
SuccessAt(k) ==
  /\ MatchesAt(k)
  /\ ~vr_response.HealthChecks[k].raises
  /\ ReportsSuccess(vr_response.HealthChecks[k].observations)
\* ... and its status query raises
RaisedAt(k) == MatchesAt(k) /\ vr_response.HealthChecks[k].raises

\* C29: verify_region_health returns true exactly when a health check of
\* the region has an observation Success and no query made before raised;
\* it returns false when no health check is one of the region, when no
\* observation of them is Success, and when a query raises.
C29_VerifyRegionHealth ==
  vr_pc = "returned" =>
    LET n == Len(vr_response.HealthChecks) IN
    /\ vr_result <=>
          /\ ~vr_response.raises
          /\ \E k \in 1..n : SuccessAt(k) /\ \A j \in 1..(k - 1) : ~RaisedAt(j)
    /\ (\A k \in 1..n : ~MatchesAt(k)) => ~vr_result
    /\ (\A k \in 1..n : ~SuccessAt(k)) => ~vr_result
    /\ vr_response.raises => ~vr_result
    /\ (\E k \in 1..n : RaisedAt(k) /\ \A j \in 1..(k - 1) : ~SuccessAt(j))
          => ~vr_result

\* true was returned for the Success of the second health check of the
\* region, after a first one without a Success
C29_Witness ==
  /\ vr_pc = "returned"
  /\ vr_result
  /\ Len(vr_response.HealthChecks) = 2
  /\ MatchesAt(1) /\ ~SuccessAt(1) /\ SuccessAt(2)

(* ======================== monitoring loops ============================= *)

\* C24: the poll loop of the lag probe makes at most max_attempts attempts
\* and, once entered, ends with success or timeout, also when reads raise;
\* the two monitoring loops start no iteration once max_wait has elapsed,
\* end, and return None exactly when the required successes were not seen.
C24_PollingLoopsTerminate ==
  /\ [](\A p \in Probes : attempt[p] <= max_attempts)
  /\ [](ft_pc = "request" => ft_elapsed < ft_max_wait)
  /\ [](rm_pc = "check" => rm_elapsed < max_wait)
  /\ [](ft_pc = "done" =>
          (ft_result = -1 <=> ft_successes < required_successes))
  /\ [](rm_pc = "done" =>
          (rm_result = -1 <=> rm_successes < required_successes))
  /\ \A p \in FirstProbe :
       (probe_pc[p] = "poll") ~>
         (probe_pc[p] = "done" /\ result[p].status \in {"success", "timeout"})
  /\ (ft_pc = "test") ~> (ft_pc = "done")
  /\ (rm_pc = "test") ~> (rm_pc = "done")

\* the monitoring loop has given up after max_wait without a recovery
C24_Witness ==
  /\ rm_pc = "done"
  /\ rm_result = -1
  /\ rm_elapsed >= max_wait
  /\ ~failover_detected

\* C25: a lag poll that is in flight when the deadline of its invocation is
\* reached ends with a timeout result, after its cleanup.
C25_DeadlineGivesTimeout ==
  \A p \in Probes :
    probe_pc[p] = "killed" =>
      /\ result[p].status = "timeout"
      /\ deletes_issued[p] = {"primary", "secondary"}

(* ======================= a probe that timed out ======================== *)

\* C30: a lag probe that timed out is stored in the validator's checks with
\* status timeout and without a lag; once the status is determined, with no
\* DIVERGED conflict it is degraded, not critical; and no run of the
\* validator starts a failover in the orchestrator.
C30_TimeoutIsNotCritical ==
  /\ replication_lag.status = "timeout" =>
       /\ replication_lag.lag_ms = -1
       /\ (v_pc \in {"alert", "return"} \/ v_response = "200") =>
            (~Diverged(conflicts) => status = "degraded")
  /\ \A i \in Invocations :
       /\ pc[i] = "idle"
       /\ outcome[i] = "NONE"
       /\ calls[i] = <<>>

\* the validator alerts about a probe timeout with a degraded status
C30_Witness ==
  /\ v_pc = "return"
  /\ replication_lag.status = "timeout"
  /\ ~Diverged(conflicts)
  /\ status = "degraded"
  /\ v_alert = "sent"

(* ======================== a report-only validator ====================== *)

\* the keys a step adds to or removes from a table
ChangedKeys(before, after) == (before \ after) \cup (after \ before)

\* C31: every step of a validation run that changes a table changes it under
\* the marker key of a probe only, and never under the key of an application
\* item; the table's own replication is not a step of the validator.
C31_ReportOnly ==
  [][replicate \/
     LET changed == ChangedKeys(table_primary, table_primary')
                      \cup ChangedKeys(table_secondary, table_secondary')
     IN /\ changed \subseteq {test_id'[p] : p \in Probes}
        /\ changed \cap AppKeys = {}]_vars

\* a probe has put and deleted its marker and the application items are
\* where they were
C31_Witness ==
  /\ \E p \in Probes :
       /\ probe_pc[p] = "done"
       /\ result[p].status = "success"
       /\ deletes_issued[p] = {"primary", "secondary"}
  /\ table_primary = AppKeys
  /\ table_secondary = {}

(* ============================ recovery ================================= *)

\* C32: an invocation calls send_notification for a recovery only when some
\* other invocation has carried out a failover away from the region its OK
\* alarm names.
C32_RecoveryOnlyAfterFailover ==
  \A i \in Invocations :
    Notifications(i, "Region Recovered") # {} =>
      \E j \in Invocations \ {i} :
        /\ outcome[j] = "SUCCEEDED"
        /\ failed_region[j] = event[i].Region

(* ====================== source, target, delivery ======================= *)

\* C33: an invocation given an ALARM message fails over from the region its
\* Region field names to the other region, whatever its name contains; the
\* two regions of a failover differ; and an ALARM whose Region and name name
\* no region starts no failover.
C33_SourceIsAlarmRegion ==
  \A i \in Invocations :
    (pc[i] # "idle" /\ event[i].kind = "alarm"
       /\ event[i].NewStateValue = "ALARM") =>
      /\ event[i].Region = PRIMARY_REGION =>
           (failed_region[i] = PRIMARY_REGION
              /\ target_region[i] = SECONDARY_REGION)
      /\ event[i].Region = SECONDARY_REGION =>
           (failed_region[i] = SECONDARY_REGION
              /\ target_region[i] = PRIMARY_REGION)
      /\ failed_region[i] # "none" => failed_region[i] # target_region[i]
      /\ (event[i].Region \notin Regions
            /\ ~NameHasMumbai(event[i].AlarmName)
            /\ ~NameHasSingapore(event[i].AlarmName)) =>
           (failed_region[i] = "none" /\ outcome[i] = "NONE")

\* C34: in either delivery form, an invocation that has returned has handled
\* the message it was given: a failover was started for an ALARM that names a
\* region, send_notification was called for an OK alarm and for an unhealthy
\* health-check state change.
C34_SameDispatchInBothForms ==
  \A i \in Invocations :
    Returned(i) =>
      /\ (event[i].kind = "alarm" /\ handle_alarm(event[i])[1] = "failover")
           => outcome[i] # "NONE"
      /\ (event[i].kind = "alarm" /\ event[i].NewStateValue = "OK")
           => Notifications(i, "Region Recovered") # {}
      /\ (event[i].kind = "health-check" /\ event[i].status = "unhealthy")
           => Notifications(i, "Health Check Unhealthy") # {}

(* ================== health checker, status and sinks =================== *)

\* C35: when a run of the health checker answers, its overall status is
\* healthy exactly when every check is healthy, send_alert was called
\* exactly when the status is unhealthy, and put_metric_data was called only
\* for a healthy store check; this is so whether the sinks failed or not.
C35_StatusAlertAndMetrics ==
  hc_pc = "return" =>
    /\ overall_status = "healthy" <=>
         (\A c \in HealthChecks : dynamodb_health.status = "healthy")
    /\ overall_status \in {"healthy", "unhealthy"}
    /\ hc_alert \in {"sent", "error"} <=> overall_status = "unhealthy"
    /\ hc_published \in {"published", "error"} <=>
         dynamodb_health.status = "healthy"

\* the metric sink failed and the run still reports healthy
C35_Witness ==
  /\ hc_pc = "return"
  /\ hc_published = "error"
  /\ overall_status = "healthy"
  /\ hc_alert = "none"

(* ====================== measure_failover_time ========================== *)

\* the number of responses 200 at the end of the history h
RECURSIVE TrailingSuccesses(_)
TrailingSuccesses(h) ==
  IF h = <<>> \/ h[Len(h)] # "200" THEN 0
  ELSE 1 + TrailingSuccesses(SubSeq(h, 1, Len(h) - 1))

\* h holds n responses 200 in a row
HasRun(h, n) ==
  \E k \in 1..(Len(h) - n + 1) : \A m \in k..(k + n - 1) : h[m] = "200"

\* C36: the count of successes is the number of responses 200 since the
\* last response that was not 200 (another status or an exception); a
\* failover time is returned only when the last 3 responses were 200, and
\* None is returned only when max_wait has elapsed and no 3 responses in a
\* row were 200.
C36_ThreeConsecutiveSuccesses ==
  /\ ft_pc # "idle" => ft_successes = TrailingSuccesses(ft_history)
  /\ (ft_pc = "done" /\ ft_result >= 0) =>
       /\ Len(ft_history) >= required_successes
       /\ TrailingSuccesses(ft_history) >= required_successes
  /\ (ft_pc = "done" /\ ft_result = -1) =>
       /\ ft_elapsed >= ft_max_wait
       /\ ~HasRun(ft_history, required_successes)
  /\ ft_pc \in {"test", "request", "sleep"} =>
       (ft_result = -2 /\ ~HasRun(ft_history, required_successes))

\* a failover time was returned after an exception had reset two successes
C36_Witness ==
  /\ ft_pc = "done"
  /\ ft_result >= 0
  /\ Len(ft_history) >= 6
  /\ ft_history[1] = "200"
  /\ ft_history[2] = "200"
  /\ ft_history[3] = "exception"

(* ============================ RTO verdict ============================== *)

\* C37: when the monitoring loop has measured an RTO, the failure of the
\* primary endpoint was seen and the count of successes of the secondary
\* endpoint has reached 3; the status of the report is PASS exactly when the
\* RTO is below the target, and it is the status the chaos harness gives
\* the same time.
C37_RestoredAndVerdict ==
  (rm_pc = "done" /\ rm_result >= 0) =>
    /\ failover_detected
    /\ rm_successes >= required_successes
    /\ rto_status(rm_result) = "PASS" <=> rm_result < rto_target
    /\ rto_status(rm_result) = chaos_status(rm_result)

(* ========================= chaos round trip ============================ *)

\* the targets a list of simulate_alb_failure holds
ListedTargets(l) == {l[k] : k \in 1..Len(l)}

\* C38: the list simulate_alb_failure returned holds every target it
\* deregistered, and after restore_alb was applied to it every target that
\* was registered before the simulation is registered.
C38_ChaosRoundTrip ==
  /\ alb_pc \in {"returned", "restore", "restored"} =>
       (alb_before \ alb_registered) \subseteq ListedTargets(deregistered)
  /\ alb_pc = "restored" => alb_before \subseteq alb_registered

====
